---------------------------- MODULE Spec2Model ----------------------------
(***************************************************************************)
(* A model of the reconcilers of the gateway operator: the DataPlane       *)
(* reconciler, the owned-resource "ensure" helpers of the ControlPlane     *)
(* reconciler and the Gateway reconciler, over one namespace of a cluster. *)
(* A reconcile pass is one action: it reads the cluster as the pass finds  *)
(* it and issues the cluster calls the code issues, in the code's order.   *)
(* Time stamps (LastTransitionTime) are not part of the state.             *)
(***************************************************************************)
EXTENDS Integers, Sequences, FiniteSets, TLC

VARIABLES
    gateway,        \* the Gateway object
    gatewayClass,   \* the GatewayClass the Gateway names
    gatewayConfig,  \* the GatewayConfiguration the GatewayClass refers to
    dataplanes,     \* the DataPlane objects of the namespace
    controlplanes,  \* the ControlPlane objects of the namespace
    services,       \* the Service objects of the namespace
    secrets,        \* the Secret objects of the namespace
    deployments,    \* the Deployment objects of the namespace
    nextName,       \* the next suffix the API server hands out for a GenerateName
    disturbances,   \* how often users and other writers have changed the cluster
    pass            \* what the reconcile pass (or helper call) that just ran did

vars == <<gateway, gatewayClass, gatewayConfig, dataplanes, controlplanes,
          services, secrets, deployments, nextName, disturbances, pass>>

-----------------------------------------------------------------------------
(* Bounds of the model *)

MaxNames == 4        \* DataPlane and ControlPlane names handed out in one behaviour
MaxDisturbances == 2 \* changes by users and other writers in one behaviour

-----------------------------------------------------------------------------
(* Constants of the program *)

GatewayOperatorControlledLabel == "konghq.com/gateway-operator"
DataPlaneManagedLabelValue == "dataplane"
ControlPlaneManagedLabelValue == "controlplane"
GatewayManagedLabelValue == "gateway"

DataPlaneConditionTypeProvisioned == "Provisioned"
DataPlaneConditionReasonPodsNotReady == "PodsNotReady"
DataPlaneConditionReasonPodsReady == "PodsReady"
DataPlaneConditionValidationFailed == "ValidationFailed"

ControlPlaneConditionTypeProvisioned == "Provisioned"
ControlPlaneConditionReasonPodsNotReady == "PodsNotReady"
ControlPlaneConditionReasonPodsReady == "PodsReady"
ControlPlaneConditionReasonNoDataplane == "NoDataplane"

GatewayConditionScheduled == "Scheduled"
GatewayConditionReady == "Ready"
GatewayReasonScheduled == "Scheduled"
GatewayReasonReady == "Ready"

ConditionTrue == "True"
ConditionFalse == "False"

numReplicasWhenNoDataplane == 0

ControllerName == "konghq.com/gateway-operator"

\* A nil pointer or an unset optional field.
\* A pointer is <<>> for nil and <<v>> for a pointer to v.
NilPtr == <<>>
Ptr(v) == <<v>>

-----------------------------------------------------------------------------
(* Values of the model *)

\* UIDs are <<kind, name>>; OtherUID is a parent of the same kind that is not
\* part of the model (another DataPlane, ControlPlane or Gateway).
UID(kind, name) == <<kind, name>>
OtherUID(kind) == <<kind, 0>>

\* The name the API server generates for a new Service, Secret or Deployment:
\* one that no object of the kind has.
FreshName(objs) ==
    CHOOSE n \in 1..(Cardinality(objs) + 1) :
        /\ \A o \in objs : o.name # n
        /\ \A m \in 1..(n - 1) : \E o \in objs : o.name = m

\* Deployment options, as a whole. OptEmpty has neither env nor envFrom;
\* OptDefault is what SetDataPlaneDefaults makes of it; OptBad1 and OptBad2
\* are options the validator rejects.
OptEmpty == "empty"
OptDefault == "default"
OptCustom == "custom"
OptBad1 == "bad1"
OptBad2 == "bad2"

NoLabels == [k \in {} |-> ""]
OneLabel(k, v) == [x \in {k} |-> v]

Write(verb, kind) == [verb |-> verb, kind |-> kind]

Condition(type, status, reason, message, generation) ==
    [type |-> type, status |-> status, reason |-> reason,
     message |-> message, observedGeneration |-> generation]

HasCondition(conditions, type) ==
    \E i \in 1..Len(conditions) : conditions[i].type = type

HasConditionTrue(conditions, type) ==
    \E i \in 1..Len(conditions) :
        conditions[i].type = type /\ conditions[i].status = ConditionTrue

\* The UIDs of the owned children of each kind a pass found when it listed
\* them.
NoneFound == [Service |-> {}, Secret |-> {}, Deployment |-> {},
              DataPlane |-> {}, ControlPlane |-> {}]

NumCreates(writes) ==
    Cardinality({i \in 1..Len(writes) : writes[i].verb = "create"})

\* What a pass leaves behind for the properties to read; NoPass after any step
\* that is not a pass.
NoPass ==
    [op |-> "none", outcome |-> "", writes |-> <<>>, requeue |-> FALSE,
     err |-> FALSE, changed |-> FALSE, found |-> NoneFound, obj |-> <<>>,
     event |-> "", conflict |-> FALSE, stale |-> FALSE,
     dataplaneReady |-> FALSE, controlplaneReady |-> FALSE]

-----------------------------------------------------------------------------
(* internal/utils/kubernetes: metadata and owner lists *)

MatchingLabels(obj, key, value) ==
    key \in DOMAIN obj.labels /\ obj.labels[key] = value

IsOwnedByRefUID(obj, uid) ==
    \E i \in 1..Len(obj.ownerReferences) : obj.ownerReferences[i] = uid

SetOwnerForObject(obj, owner) ==
    [obj EXCEPT !.ownerReferences = <<owner.uid>>]

MergeLabels(existing, generated) ==
    [k \in DOMAIN existing \cup DOMAIN generated |->
        IF k \in DOMAIN generated THEN generated[k] ELSE existing[k]]

\* On a shared label key the existing value is kept.
keepsExistingLabelValues(existingObj, generatedObj) ==
    LET newObj == [existingObj EXCEPT
                      !.ownerReferences = generatedObj.ownerReferences,
                      !.labels = MergeLabels(generatedObj.labels, existingObj.labels)]
    IN [toUpdate |-> \/ existingObj.ownerReferences # newObj.ownerReferences
                     \/ existingObj.labels # newObj.labels,
        obj |-> newObj]

keepsExistingOwners(existingObj, generatedObj) ==
    [toUpdate |-> existingObj.ownerReferences # generatedObj.ownerReferences,
     obj |-> [existingObj EXCEPT
                 !.labels = MergeLabels(existingObj.labels, generatedObj.labels)]]

\* The metadata is reported as changed whatever the object carries.
reportsMetaAsUpdated(existingObj, generatedObj) ==
    [toUpdate |-> TRUE,
     obj |-> [existingObj EXCEPT
                 !.ownerReferences = generatedObj.ownerReferences,
                 !.labels = MergeLabels(existingObj.labels, generatedObj.labels)]]

EnsureObjectMetaIsUpdated(existingObj, generatedObj) ==
    LET newObj == [existingObj EXCEPT
                      !.ownerReferences = generatedObj.ownerReferences,
                      !.labels = MergeLabels(existingObj.labels, generatedObj.labels)]
    IN [toUpdate |-> \/ existingObj.ownerReferences # newObj.ownerReferences
                     \/ existingObj.labels # newObj.labels,
        obj |-> newObj]

\* The objects listed by label, whoever owns them.
ListByLabel(objs, requiredLabel, requiredValue, uid) ==
    {o \in objs : MatchingLabels(o, requiredLabel, requiredValue)}

ListForOwner(objs, requiredLabel, requiredValue, uid) ==
    {o \in objs : MatchingLabels(o, requiredLabel, requiredValue)
                  /\ IsOwnedByRefUID(o, uid)}

ListDeploymentsForOwner(objs, requiredLabel, requiredValue, uid) ==
    ListForOwner(objs, requiredLabel, requiredValue, uid)

ListServicesForOwner(objs, requiredLabel, requiredValue, uid) ==
    ListForOwner(objs, requiredLabel, requiredValue, uid)

\* What a client reads from a cache that the objects have not reached yet.
readFromStaleCache(objs) == {}

\* ClientDisableCacheFor: the Deployments (and Secrets) a client reads are
\* those of the API server.
readFromAPIServer(objs) == objs

\* client.DeleteAllOf(InNamespace, MatchingLabels): what is left of objs.
DeleteAllOf(objs, key, value) ==
    {o \in objs : ~MatchingLabels(o, key, value)}

-----------------------------------------------------------------------------
(* controllers/dataplane_controller: generated children of a DataPlane *)

labelObjForDataplane(obj) ==
    [obj EXCEPT !.labels = MergeLabels(obj.labels,
        OneLabel(GatewayOperatorControlledLabel, DataPlaneManagedLabelValue))]

generateNewDeploymentForDataPlane(dataplane, name) ==
    [uid |-> UID("Deployment", name), name |-> name, ownerReferences |-> <<>>,
     labels |-> NoLabels, replicas |-> <<>>,
     env |-> dataplane.spec, statusReplicas |-> 0, availableReplicas |-> 0]

generateNewServiceForDataplane(dataplane, name) ==
    [uid |-> UID("Service", name), name |-> name, ownerReferences |-> <<>>,
     labels |-> NoLabels, clusterIP |-> "", ingress |-> <<>>]

generateNewSecretForDataplane(dataplane, name) ==
    [uid |-> UID("Secret", name), name |-> name, ownerReferences |-> <<>>,
     labels |-> NoLabels]

\* What an ensure step hands back: whether it created or updated, the child,
\* the children of that kind as the step leaves them, the calls it issued and
\* the UIDs of the owned children it had found.
Ensured(changed, obj, objs, writes, found) ==
    [changed |-> changed, obj |-> obj, objs |-> objs, writes |-> writes,
     found |-> found]

KeepDuplicates(objs, count, key, value) == objs

\* More than one owned child: delete all of the kind that carry the label.
DeleteDuplicates(objs, count, key, value) ==
    IF count > 1 THEN DeleteAllOf(objs, key, value) ELSE objs

\* The shape shared by the ensure steps of the DataPlane reconciler: list the
\* owned children, delete all of the label when there is more than one, update
\* the metadata of a single one, create when there was not exactly one.
EnsureOwned(objs, owned, generated, kind, key, value) ==
    LET count == Cardinality(owned)
        found == {o.uid : o \in owned}
        left == DeleteDuplicates(objs, count, key, value)
        deleted == IF count > 1 THEN <<Write("deleteAllOf", kind)>> ELSE <<>>
    IN  IF count = 1
        THEN LET existing == CHOOSE o \in owned : TRUE
                 meta == EnsureObjectMetaIsUpdated(existing, generated)
             IN  IF meta.toUpdate
                 THEN Ensured(TRUE, meta.obj, (objs \ {existing}) \cup {meta.obj},
                              <<Write("update", kind)>>, found)
                 ELSE Ensured(FALSE, existing, objs, <<>>, found)
        ELSE Ensured(TRUE, generated, left \cup {generated},
                     deleted \o <<Write("create", kind)>>, found)

ensureDeploymentForDataPlane(dataplane) ==
    EnsureOwned(deployments,
        ListDeploymentsForOwner(readFromAPIServer(deployments),
                                GatewayOperatorControlledLabel,
                                DataPlaneManagedLabelValue, dataplane.uid),
        labelObjForDataplane(SetOwnerForObject(
            generateNewDeploymentForDataPlane(dataplane, FreshName(deployments)),
            dataplane)),
        "Deployment", GatewayOperatorControlledLabel, DataPlaneManagedLabelValue)

ensureServiceForDataPlane(dataplane) ==
    EnsureOwned(services,
        ListServicesForOwner(services, GatewayOperatorControlledLabel,
                             DataPlaneManagedLabelValue, dataplane.uid),
        labelObjForDataplane(SetOwnerForObject(
            generateNewServiceForDataplane(dataplane, FreshName(services)),
            dataplane)),
        "Service", GatewayOperatorControlledLabel, DataPlaneManagedLabelValue)

ensureCertificate(dataplane) ==
    EnsureOwned(secrets,
        ListForOwner(secrets, GatewayOperatorControlledLabel,
                     DataPlaneManagedLabelValue, dataplane.uid),
        labelObjForDataplane(SetOwnerForObject(
            generateNewSecretForDataplane(dataplane, FreshName(secrets)),
            dataplane)),
        "Secret", GatewayOperatorControlledLabel, DataPlaneManagedLabelValue)

-----------------------------------------------------------------------------
(* controllers/dataplane_controller: status management *)

\* The validator collaborator: the error text, or "" for nil.
Validate(dataplane) ==
    CASE dataplane.spec = OptBad1 -> "bad1 is not supported"
      [] dataplane.spec = OptBad2 -> "bad2 is not supported"
      [] OTHER -> ""

\* The defaults fill in the env of options that have none.
SetDataPlaneDefaults(spec) == IF spec = OptEmpty THEN OptDefault ELSE spec

appendsDataPlaneScheduled(dataplane) ==
    [changed |-> TRUE,
     obj |-> [dataplane EXCEPT !.conditions = Append(@,
         Condition(DataPlaneConditionTypeProvisioned, ConditionFalse,
                   DataPlaneConditionReasonPodsNotReady,
                   "DataPlane resource is scheduled for provisioning",
                   dataplane.generation))]]

\* The conditions with a PodsNotReady Provisioned condition appended when the
\* list has no Provisioned condition.
ensureDataPlaneIsMarkedScheduled(dataplane) ==
    IF HasCondition(dataplane.conditions, DataPlaneConditionTypeProvisioned)
    THEN [changed |-> FALSE, obj |-> dataplane]
    ELSE [changed |-> TRUE,
          obj |-> [dataplane EXCEPT !.conditions = Append(@,
              Condition(DataPlaneConditionTypeProvisioned, ConditionFalse,
                        DataPlaneConditionReasonPodsNotReady,
                        "DataPlane resource is scheduled for provisioning",
                        dataplane.generation))]]

ensureDataPlaneIsMarkedProvisioned(dataplane) ==
    [dataplane EXCEPT !.conditions =
        [i \in 1..Len(@) |->
            IF @[i].type = DataPlaneConditionTypeProvisioned
            THEN Condition(DataPlaneConditionTypeProvisioned, ConditionTrue,
                           DataPlaneConditionReasonPodsReady,
                           "pods for all Deployments are ready",
                           dataplane.generation)
            ELSE @[i]]]

isSameDataPlaneCondition(condition1, condition2) ==
    /\ condition1.type = condition2.type
    /\ condition1.status = condition2.status
    /\ condition1.reason = condition2.reason
    /\ condition1.message = condition2.message

leaveDataPlaneStatus(dataplane, reason, message) ==
    [obj |-> dataplane, writes |-> <<>>]

\* [obj: the DataPlane as the call leaves it, writes: the calls it issued].
ensureDataPlaneIsMarkedNotProvisioned(dataplane, reason, message) ==
    LET notProvisionedCondition ==
            Condition(DataPlaneConditionTypeProvisioned, ConditionFalse,
                      reason, message, dataplane.generation)
        conds == dataplane.conditions
        conditionFound == HasCondition(conds, DataPlaneConditionTypeProvisioned)
        replaced == [i \in 1..Len(conds) |->
            IF /\ conds[i].type = DataPlaneConditionTypeProvisioned
               /\ ~isSameDataPlaneCondition(notProvisionedCondition, conds[i])
            THEN notProvisionedCondition ELSE conds[i]]
        updated == IF conditionFound THEN replaced
                   ELSE Append(conds, notProvisionedCondition)
        shouldUpdate == ~conditionFound
                        \/ \E i \in 1..Len(conds) :
                            /\ conds[i].type = DataPlaneConditionTypeProvisioned
                            /\ ~isSameDataPlaneCondition(notProvisionedCondition, conds[i])
    IN  [obj |-> [dataplane EXCEPT !.conditions = updated],
         writes |-> IF shouldUpdate THEN <<Write("updateStatus", "DataPlane")>>
                    ELSE <<>>]

NeedsUpdate(current, updated) == current.conditions # updated.conditions

alwaysUpdateStatus(current, updated) ==
    [obj |-> updated, writes |-> <<Write("updateStatus", "DataPlane")>>]

\* updateStatus: a status update only when the conditions changed.
updateStatus(current, updated) ==
    IF NeedsUpdate(current, updated)
    THEN [obj |-> updated, writes |-> <<Write("updateStatus", "DataPlane")>>]
    ELSE [obj |-> current, writes |-> <<>>]

ensureDataPlaneServiceStatus(dataplane, serviceName) ==
    [obj |-> [dataplane EXCEPT !.service = <<serviceName>>],
     writes |-> IF dataplane.service # <<serviceName>>
                THEN <<Write("updateStatus", "DataPlane")>> ELSE <<>>]

-----------------------------------------------------------------------------
(* controllers/dataplane_controller: DataPlaneReconciler.Reconcile *)

readyWhateverItsReplicas(deployment) == FALSE

dataplaneDeploymentNotReady(deployment) ==
    \/ deployment.statusReplicas = 0
    \/ deployment.availableReplicas < deployment.statusReplicas

\* One pass over the DataPlane as read: the cluster as the pass leaves it and
\* what the pass did.
skipsClusterIPCheck(service) == FALSE

\* The Service has no cluster-internal address assigned yet.
serviceHasNoClusterIP(service) == service.clusterIP = ""

DataPlaneReconcilePass(dataplane) ==
    LET scheduled == ensureDataPlaneIsMarkedScheduled(dataplane)
        service == ensureServiceForDataPlane(dataplane)
        certificate == ensureCertificate(dataplane)
        deployment == ensureDeploymentForDataPlane(dataplane)
        message == Validate(dataplane)
        base == [dataplane |-> dataplane, services |-> services,
                 secrets |-> secrets, deployments |-> deployments,
                 outcome |-> "", writes |-> <<>>, requeue |-> FALSE,
                 event |-> "", found |-> NoneFound]
    IN  IF scheduled.changed
        THEN LET st == updateStatus(dataplane, scheduled.obj)
             IN  [base EXCEPT !.outcome = "scheduled", !.dataplane = st.obj,
                              !.writes = st.writes]
        ELSE IF service.changed
        THEN LET st == ensureDataPlaneServiceStatus(dataplane, service.obj.name)
             IN  [base EXCEPT !.outcome = "service", !.services = service.objs,
                              !.dataplane = st.obj,
                              !.writes = service.writes \o st.writes,
                              !.found.Service = service.found]
        ELSE IF serviceHasNoClusterIP(service.obj)
        THEN [base EXCEPT !.outcome = "waitClusterIP",
                          !.found.Service = service.found]
        ELSE IF dataplane.spec = OptEmpty
        THEN [base EXCEPT !.outcome = "defaults",
                          !.dataplane = [dataplane EXCEPT
                              !.spec = SetDataPlaneDefaults(@),
                              !.generation = @ + 1],
                          !.writes = <<Write("update", "DataPlane")>>,
                          !.found.Service = service.found]
        ELSE IF message # ""
        THEN LET marked == ensureDataPlaneIsMarkedNotProvisioned(dataplane,
                               DataPlaneConditionValidationFailed, message)
             IN  [base EXCEPT !.outcome = "validationFailed",
                              !.dataplane = marked.obj,
                              !.writes = marked.writes, !.event = message,
                              !.found.Service = service.found]
        ELSE IF certificate.changed
        THEN [base EXCEPT !.outcome = "certificate",
                          !.secrets = certificate.objs,
                          !.writes = certificate.writes,
                          !.found.Service = service.found,
                          !.found.Secret = certificate.found]
        ELSE IF deployment.changed
        THEN [base EXCEPT !.outcome = "deployment",
                          !.deployments = deployment.objs,
                          !.writes = deployment.writes,
                          !.found.Service = service.found,
                          !.found.Secret = certificate.found,
                          !.found.Deployment = deployment.found]
        ELSE IF dataplaneDeploymentNotReady(deployment.obj)
        THEN [base EXCEPT !.outcome = "waitDeployment",
                          !.found.Service = service.found,
                          !.found.Secret = certificate.found,
                          !.found.Deployment = deployment.found]
        ELSE LET st == updateStatus(dataplane,
                                    ensureDataPlaneIsMarkedProvisioned(dataplane))
             IN  [base EXCEPT !.outcome = "provisioned", !.dataplane = st.obj,
                              !.writes = st.writes,
                              !.found.Service = service.found,
                              !.found.Secret = certificate.found,
                              !.found.Deployment = deployment.found]

\* The owned children of a DataPlane, as the reconciler lists them.
OwnedServices(uid) ==
    ListServicesForOwner(services, GatewayOperatorControlledLabel,
                         DataPlaneManagedLabelValue, uid)
OwnedSecrets(uid) ==
    ListForOwner(secrets, GatewayOperatorControlledLabel,
                 DataPlaneManagedLabelValue, uid)
OwnedDeployments(uid) ==
    ListDeploymentsForOwner(deployments, GatewayOperatorControlledLabel,
                            DataPlaneManagedLabelValue, uid)

\* A child carries the owner reference and the label the reconciler generates.
CarriesGeneratedMeta(obj, owner) ==
    /\ obj.ownerReferences = <<owner.uid>>
    /\ MatchingLabels(obj, GatewayOperatorControlledLabel, DataPlaneManagedLabelValue)

\* The DataPlane has nothing left to converge: provisioned, one Service with a
\* ClusterIP, a valid spec with env set, one certificate Secret and one
\* Deployment whose replicas are all available.
DataPlaneStable(dataplane) ==
    /\ \E i \in 1..Len(dataplane.conditions) :
          dataplane.conditions[i] =
              [Condition(DataPlaneConditionTypeProvisioned, ConditionTrue,
                         DataPlaneConditionReasonPodsReady,
                         "pods for all Deployments are ready", 0)
                  EXCEPT !.observedGeneration = dataplane.conditions[i].observedGeneration]
    /\ Cardinality(OwnedServices(dataplane.uid)) = 1
    /\ \A s \in OwnedServices(dataplane.uid) :
          s.clusterIP # "" /\ CarriesGeneratedMeta(s, dataplane)
    /\ dataplane.spec # OptEmpty
    /\ Validate(dataplane) = ""
    /\ Cardinality(OwnedSecrets(dataplane.uid)) = 1
    /\ \A s \in OwnedSecrets(dataplane.uid) : CarriesGeneratedMeta(s, dataplane)
    /\ Cardinality(OwnedDeployments(dataplane.uid)) = 1
    /\ \A d \in OwnedDeployments(dataplane.uid) :
          /\ CarriesGeneratedMeta(d, dataplane)
          /\ d.statusReplicas > 0
          /\ d.availableReplicas >= d.statusReplicas

\* Every Provisioned condition of the DataPlane was written at its generation.
DataPlaneConditionsUpToDate(dataplane) ==
    \A i \in 1..Len(dataplane.conditions) :
        dataplane.conditions[i].type = DataPlaneConditionTypeProvisioned
            => dataplane.conditions[i].observedGeneration = dataplane.generation

DataPlaneReconcile(dataplane) ==
    \E r \in {DataPlaneReconcilePass(dataplane)} :
        /\ dataplanes' = (dataplanes \ {dataplane}) \cup {r.dataplane}
        /\ services' = r.services
        /\ secrets' = r.secrets
        /\ deployments' = r.deployments
        /\ pass' = [NoPass EXCEPT !.op = "DataPlane", !.obj = dataplane.uid,
                                  !.outcome = r.outcome, !.writes = r.writes,
                                  !.requeue = r.requeue, !.event = r.event,
                                  !.found = r.found]
        /\ UNCHANGED <<gateway, gatewayClass, gatewayConfig, controlplanes,
                       nextName, disturbances>>

\* The update sites of Reconcile that check k8serrors.IsConflict and answer a
\* conflict with a requeue; at the other sites the error of the update is
\* returned as it is.
requeuesOnConflict(outcome) == outcome \in {"defaults", "provisioned"}

\* A pass whose update, or status update, of the DataPlane is rejected with a
\* conflict, the DataPlane having changed since the pass read it: what the
\* pass did before that call stays, the DataPlane stays as it is.
DataPlaneReconcileConflict(dataplane) ==
    \E r \in {DataPlaneReconcilePass(dataplane)} :
        /\ \E i \in 1..Len(r.writes) : r.writes[i].kind = "DataPlane"
        /\ services' = r.services
        /\ pass' = [NoPass EXCEPT !.op = "DataPlane", !.obj = dataplane.uid,
                                  !.outcome = r.outcome, !.writes = r.writes,
                                  !.requeue = requeuesOnConflict(r.outcome),
                                  !.err = ~requeuesOnConflict(r.outcome),
                                  !.conflict = TRUE, !.event = r.event,
                                  !.found = r.found]
        /\ UNCHANGED <<gateway, gatewayClass, gatewayConfig, dataplanes,
                       controlplanes, secrets, deployments, nextName,
                       disturbances>>

\* The API server stores whatever is sent last.
lastWriteWins(stored, read, sent) == [conflict |-> FALSE, obj |-> sent]

\* The answer of the API server to Update and to Status().Update. The object
\* sent is the one the pass got from Client.Get with the changes of the pass
\* and carries the resourceVersion of the object read; the update is
\* rejected as a conflict when the object stored is at another version. A
\* version stands for the content stored at it.
apiServerUpdate(stored, read, sent) ==
    IF stored # read
    THEN [conflict |-> TRUE, obj |-> stored]
    ELSE [conflict |-> FALSE, obj |-> sent]

\* A pass that reads the DataPlane, after which another writer updates the
\* spec of the DataPlane, after which the pass issues its update, or status
\* update, of the DataPlane.
DataPlaneReconcileStale(dataplane, spec) ==
    \E stored \in {[dataplane EXCEPT !.spec = spec, !.generation = @ + 1]} :
    \E r \in {DataPlaneReconcilePass(dataplane)} :
    \E answer \in {apiServerUpdate(stored, dataplane, r.dataplane)} :
        /\ disturbances < MaxDisturbances
        /\ disturbances' = disturbances + 1
        /\ spec # dataplane.spec
        /\ \E i \in 1..Len(r.writes) : r.writes[i].kind = "DataPlane"
        /\ dataplanes' = (dataplanes \ {dataplane}) \cup {answer.obj}
        /\ services' = r.services
        /\ pass' = [NoPass EXCEPT
                       !.op = "DataPlane", !.obj = dataplane.uid,
                       !.outcome = r.outcome, !.writes = r.writes,
                       !.requeue = IF answer.conflict
                                   THEN requeuesOnConflict(r.outcome)
                                   ELSE r.requeue,
                       !.err = answer.conflict /\ ~requeuesOnConflict(r.outcome),
                       !.conflict = answer.conflict, !.stale = TRUE,
                       !.event = r.event, !.found = r.found]
        /\ UNCHANGED <<gateway, gatewayClass, gatewayConfig, controlplanes,
                       secrets, deployments, nextName>>

returnsGetError(name) ==
    [outcome |-> "notFound", err |-> TRUE, requeue |-> FALSE, writes |-> <<>>]

\* What the pass returns when Client.Get of the DataPlane named in the
\* request answers NotFound.
dataplaneIsNotFound(name) ==
    [outcome |-> "notFound", err |-> FALSE, requeue |-> FALSE, writes |-> <<>>]

\* A pass for the request that names a DataPlane: over the DataPlane of that
\* name, or, when it has been deleted since the request was queued, over
\* nothing.
DataPlaneReconcileRequest(name) ==
    \/ \E dataplane \in dataplanes :
          dataplane.name = name /\ DataPlaneReconcile(dataplane)
    \/ /\ \A dataplane \in dataplanes : dataplane.name # name
       /\ name < nextName
       /\ \E r \in {dataplaneIsNotFound(name)} :
             pass' = [NoPass EXCEPT !.op = "DataPlane",
                                    !.obj = UID("DataPlane", name),
                                    !.outcome = r.outcome, !.err = r.err,
                                    !.requeue = r.requeue, !.writes = r.writes]
       /\ UNCHANGED <<gateway, gatewayClass, gatewayConfig, dataplanes,
                      controlplanes, services, secrets, deployments, nextName,
                      disturbances>>

-----------------------------------------------------------------------------
(* The cluster around the DataPlane reconciler: the API server, the Deployment *)
(* controller, users and other writers.                                       *)

ServiceGetsClusterIP(service) ==
    /\ service.clusterIP = ""
    /\ services' = (services \ {service})
                     \cup {[service EXCEPT !.clusterIP = "10.0.0.1"]}
    /\ pass' = NoPass
    /\ UNCHANGED <<gateway, gatewayClass, gatewayConfig, dataplanes,
                   controlplanes, secrets, deployments, nextName, disturbances>>

\* The Deployment controller reports on a Deployment the reconciler reads.
DeploymentStatusChanges(deployment, status) ==
    /\ \E dataplane \in dataplanes : deployment \in OwnedDeployments(dataplane.uid)
    /\ status # <<deployment.statusReplicas, deployment.availableReplicas>>
    /\ deployments' = (deployments \ {deployment})
          \cup {[deployment EXCEPT !.statusReplicas = status[1],
                                   !.availableReplicas = status[2]]}
    /\ pass' = NoPass
    /\ UNCHANGED <<gateway, gatewayClass, gatewayConfig, dataplanes,
                   controlplanes, services, secrets, nextName, disturbances>>

UserEditsDataPlane(dataplane, spec) ==
    /\ disturbances < MaxDisturbances
    /\ disturbances' = disturbances + 1
    /\ spec # dataplane.spec
    /\ dataplanes' = (dataplanes \ {dataplane})
          \cup {[dataplane EXCEPT !.spec = spec, !.generation = @ + 1]}
    /\ pass' = NoPass
    /\ UNCHANGED <<gateway, gatewayClass, gatewayConfig, controlplanes,
                   services, secrets, deployments, nextName>>

\* Another writer creates a Deployment with the given owner and labels.
WriterCreatesDeployment(owner, labels) ==
    /\ disturbances < MaxDisturbances
    /\ disturbances' = disturbances + 1
    /\ deployments' = deployments \cup
          {[uid |-> UID("Deployment", FreshName(deployments)),
            name |-> FreshName(deployments),
            ownerReferences |-> <<owner>>, labels |-> labels, replicas |-> <<>>,
            env |-> OptCustom, statusReplicas |-> 0, availableReplicas |-> 0]}
    /\ pass' = NoPass
    /\ UNCHANGED <<gateway, gatewayClass, gatewayConfig, dataplanes,
                   controlplanes, services, secrets, nextName>>

WriterCreatesService(owner, labels) ==
    /\ disturbances < MaxDisturbances
    /\ disturbances' = disturbances + 1
    /\ services' = services \cup
          {[uid |-> UID("Service", FreshName(services)),
            name |-> FreshName(services),
            ownerReferences |-> <<owner>>, labels |-> labels,
            clusterIP |-> "10.0.0.1", ingress |-> <<>>]}
    /\ pass' = NoPass
    /\ UNCHANGED <<gateway, gatewayClass, gatewayConfig, dataplanes,
                   controlplanes, secrets, deployments, nextName>>

\* What other writers put on the children they create: a duplicate of the
\* DataPlane's child, a labelled child of another DataPlane, or a child of the
\* DataPlane without the label.
DataPlaneChildMeta ==
    LET label == OneLabel(GatewayOperatorControlledLabel, DataPlaneManagedLabelValue)
    IN  {<<UID("DataPlane", 1), label>>, <<OtherUID("DataPlane"), label>>,
         <<UID("DataPlane", 1), NoLabels>>}

\* <<status.replicas, status.availableReplicas>> of a Deployment.
DeploymentStatuses == {<<0, 0>>, <<1, 0>>, <<1, 1>>}
DataPlaneSpecs == {OptEmpty, OptCustom, OptBad1, OptBad2}

NewGateway ==
    [uid |-> UID("Gateway", 1), name |-> 1, generation |-> 1,
     gatewayClassName |-> "kong", conditions |-> <<>>, addresses |-> <<>>,
     exists |-> TRUE]

NewGatewayClass ==
    [name |-> "kong", controllerName |-> ControllerName,
     parametersRef |-> NilPtr]

\* The parametersRef of a GatewayClass that names the GatewayConfiguration
\* of the model; its namespace is a pointer to a string.
ConfigurationReference ==
    [group |-> "gateway-operator.konghq.com", kind |-> "GatewayConfiguration",
     namespace |-> Ptr("default"), name |-> "config"]

\* A GatewayConfiguration; each of its deployment options is a pointer.
NewGatewayConfiguration(dataplaneOptions, controlplaneOptions) ==
    [namespace |-> "default", name |-> "config",
     dataplaneOptions |-> dataplaneOptions,
     controlplaneOptions |-> controlplaneOptions]

NewDataPlane(name, owners, labels, spec) ==
    [uid |-> UID("DataPlane", name), name |-> name, ownerReferences |-> owners,
     labels |-> labels, generation |-> 1, spec |-> spec, conditions |-> <<>>,
     service |-> <<>>]

InitDataPlane ==
    /\ gateway = NewGateway
    /\ gatewayClass = NewGatewayClass
    /\ gatewayConfig = NewGatewayConfiguration(<<>>, <<>>)
    /\ \E spec \in DataPlaneSpecs :
          dataplanes = {NewDataPlane(1, <<>>, NoLabels, spec)}
    /\ controlplanes = {}
    /\ services = {}
    /\ secrets = {}
    /\ deployments = {}
    /\ nextName = 2
    /\ disturbances = 0
    /\ pass = NoPass

NextDataPlane ==
    \/ \E dataplane \in dataplanes : DataPlaneReconcile(dataplane)
    \/ \E service \in services : ServiceGetsClusterIP(service)
    \/ \E deployment \in deployments, status \in DeploymentStatuses :
          DeploymentStatusChanges(deployment, status)
    \/ \E dataplane \in dataplanes, spec \in DataPlaneSpecs :
          UserEditsDataPlane(dataplane, spec)
    \/ \E meta \in DataPlaneChildMeta : WriterCreatesDeployment(meta[1], meta[2])
    \/ \E meta \in DataPlaneChildMeta : WriterCreatesService(meta[1], meta[2])

SpecDataPlane == InitDataPlane /\ [][NextDataPlane]_vars

\* The DataPlane controller next to writers that make its updates conflict.
NextDataPlaneConflicts ==
    \/ NextDataPlane
    \/ \E dataplane \in dataplanes : DataPlaneReconcileConflict(dataplane)
    \/ \E dataplane \in dataplanes, spec \in DataPlaneSpecs :
          DataPlaneReconcileStale(dataplane, spec)

SpecDataPlaneConflicts == InitDataPlane /\ [][NextDataPlaneConflicts]_vars

-----------------------------------------------------------------------------
(* controllers/controlplane_controller_reconciler_utils: the Deployment of a *)
(* ControlPlane                                                              *)

\* A name s is <<>> for "" and <<n>> for the name of object n.
EmptyString == <<>>
NameString(n) == <<n>>

\* The DataPlane reference counts as set whatever it holds.
dataplaneIsAlwaysSet(controlplane) == TRUE

dataplaneIsSet(controlplane) ==
    /\ controlplane.dataplane # NilPtr
    /\ controlplane.dataplane[1] # EmptyString

labelObjForControlPlane(obj) ==
    [obj EXCEPT !.labels = MergeLabels(obj.labels,
        OneLabel(GatewayOperatorControlledLabel, ControlPlaneManagedLabelValue))]

generateNewDeploymentForControlPlane(controlplane, name) ==
    [uid |-> UID("Deployment", name), name |-> name, ownerReferences |-> <<>>,
     labels |-> NoLabels, replicas |-> NilPtr, env |-> controlplane.env,
     statusReplicas |-> 0, availableReplicas |-> 0]

keepScaleOfDeployment(existingDeployment, controlplane) ==
    [updated |-> FALSE, obj |-> existingDeployment]

\* The switch on the replicas of the single existing Deployment: scale down
\* to zero when no DataPlane is set, unset the replicas and refresh the env
\* when a DataPlane is set and the Deployment is scaled to zero.
scaleExistingDeployment(existingDeployment, controlplane) ==
    LET replicas == existingDeployment.replicas
    IN  IF /\ ~dataplaneIsSet(controlplane)
           /\ (replicas = NilPtr \/ replicas[1] # numReplicasWhenNoDataplane)
        THEN [updated |-> TRUE,
              obj |-> [existingDeployment EXCEPT
                          !.replicas = Ptr(numReplicasWhenNoDataplane)]]
        ELSE IF /\ dataplaneIsSet(controlplane)
                /\ replicas # NilPtr
                /\ replicas[1] = numReplicasWhenNoDataplane
        THEN [updated |-> TRUE,
              obj |-> [existingDeployment EXCEPT
                          !.replicas = NilPtr,
                          !.env = IF Len(@) > 0 THEN controlplane.env ELSE @]]
        ELSE [updated |-> FALSE, obj |-> existingDeployment]

ensureDeploymentForControlPlane(controlplane) ==
    LET owned == ListDeploymentsForOwner(readFromAPIServer(deployments),
                     GatewayOperatorControlledLabel,
                     ControlPlaneManagedLabelValue, controlplane.uid)
        count == Cardinality(owned)
        found == {o.uid : o \in owned}
        left == DeleteDuplicates(deployments, count,
                    GatewayOperatorControlledLabel, ControlPlaneManagedLabelValue)
        deleted == IF count > 1 THEN <<Write("deleteAllOf", "Deployment")>>
                   ELSE <<>>
        generatedDeployment == labelObjForControlPlane(SetOwnerForObject(
            generateNewDeploymentForControlPlane(controlplane,
                                                 FreshName(deployments)),
            controlplane))
    IN  IF count = 1
        THEN LET existingDeployment == CHOOSE o \in owned : TRUE
                 meta == EnsureObjectMetaIsUpdated(existingDeployment,
                                                   generatedDeployment)
                 scaled == scaleExistingDeployment(meta.obj, controlplane)
             IN  IF meta.toUpdate \/ scaled.updated
                 THEN Ensured(TRUE, scaled.obj,
                              (deployments \ {existingDeployment}) \cup {scaled.obj},
                              <<Write("update", "Deployment")>>, found)
                 ELSE Ensured(FALSE, existingDeployment, deployments, <<>>, found)
        ELSE LET created == IF ~dataplaneIsSet(controlplane)
                            THEN [generatedDeployment EXCEPT
                                     !.replicas = Ptr(numReplicasWhenNoDataplane)]
                            ELSE generatedDeployment
             IN  Ensured(TRUE, created, left \cup {created},
                         deleted \o <<Write("create", "Deployment")>>, found)

OwnedControlPlaneDeployments(uid) ==
    ListDeploymentsForOwner(deployments, GatewayOperatorControlledLabel,
                            ControlPlaneManagedLabelValue, uid)

\* One call of ensureDeploymentForControlPlane by the ControlPlane reconciler.
EnsureDeploymentForControlPlane(controlplane) ==
    \E r \in {ensureDeploymentForControlPlane(controlplane)} :
        /\ deployments' = r.objs
        /\ pass' = [NoPass EXCEPT !.op = "ensureDeploymentForControlPlane",
                                  !.obj = controlplane.uid,
                                  !.outcome = IF r.changed THEN "changed"
                                              ELSE "unchanged",
                                  !.changed = r.changed, !.writes = r.writes,
                                  !.found.Deployment = r.found]
        /\ UNCHANGED <<gateway, gatewayClass, gatewayConfig, dataplanes,
                       controlplanes, services, secrets, nextName, disturbances>>

-----------------------------------------------------------------------------
(* The cluster around the ControlPlane reconciler *)

\* The env of a ControlPlane is a list of <<name, value>> entries; the value
\* of the publish-service entry names the Service of the DataPlane.
PublishServiceEnv(serviceName) ==
    <<<<"CONTROLLER_PUBLISH_SERVICE", serviceName>>>>

ControlPlaneEnvs == {<<>>, PublishServiceEnv(1), PublishServiceEnv(2)}
DataPlaneRefs == {NilPtr, Ptr(EmptyString), Ptr(NameString(1))}
ReplicaCounts == {NilPtr, Ptr(0), Ptr(1)}

\* A user or the Gateway reconciler updates the spec of the ControlPlane.
UserEditsControlPlane(controlplane, dataplane, env) ==
    /\ disturbances < MaxDisturbances
    /\ disturbances' = disturbances + 1
    /\ <<dataplane, env>> # <<controlplane.dataplane, controlplane.env>>
    /\ controlplanes' = (controlplanes \ {controlplane})
          \cup {[controlplane EXCEPT !.dataplane = dataplane, !.env = env,
                                     !.generation = @ + 1]}
    /\ pass' = NoPass
    /\ UNCHANGED <<gateway, gatewayClass, gatewayConfig, dataplanes,
                   services, secrets, deployments, nextName>>

\* Someone scales a Deployment the ControlPlane owns.
DeploymentScaled(deployment, replicas) ==
    /\ disturbances < MaxDisturbances
    /\ disturbances' = disturbances + 1
    /\ \E controlplane \in controlplanes :
          deployment \in OwnedControlPlaneDeployments(controlplane.uid)
    /\ replicas # deployment.replicas
    /\ deployments' = (deployments \ {deployment})
          \cup {[deployment EXCEPT !.replicas = replicas]}
    /\ pass' = NoPass
    /\ UNCHANGED <<gateway, gatewayClass, gatewayConfig, dataplanes,
                   controlplanes, services, secrets, nextName>>

\* Another writer creates a Deployment that the ControlPlane owns as well, or
\* a labelled Deployment of another ControlPlane.
WriterCreatesControlPlaneDeployment(owner, replicas, env) ==
    /\ disturbances < MaxDisturbances
    /\ disturbances' = disturbances + 1
    /\ deployments' = deployments \cup
          {[uid |-> UID("Deployment", FreshName(deployments)),
            name |-> FreshName(deployments), ownerReferences |-> <<owner>>,
            labels |-> OneLabel(GatewayOperatorControlledLabel,
                                ControlPlaneManagedLabelValue),
            replicas |-> replicas, env |-> env,
            statusReplicas |-> 0, availableReplicas |-> 0]}
    /\ pass' = NoPass
    /\ UNCHANGED <<gateway, gatewayClass, gatewayConfig, dataplanes,
                   controlplanes, services, secrets, nextName>>

NewControlPlane(name, owners, labels, dataplane, env) ==
    [uid |-> UID("ControlPlane", name), name |-> name,
     ownerReferences |-> owners, labels |-> labels, generation |-> 1,
     dataplane |-> dataplane, env |-> env, conditions |-> <<>>]

InitControlPlane ==
    /\ gateway = NewGateway
    /\ gatewayClass = NewGatewayClass
    /\ gatewayConfig = NewGatewayConfiguration(<<>>, <<>>)
    /\ dataplanes = {}
    /\ \E dataplane \in DataPlaneRefs, env \in ControlPlaneEnvs :
          controlplanes = {NewControlPlane(1, <<>>, NoLabels, dataplane, env)}
    /\ services = {}
    /\ secrets = {}
    /\ deployments = {}
    /\ nextName = 2
    /\ disturbances = 0
    /\ pass = NoPass

\* The watch predicate of the ControlPlane controller for ClusterRoles and
\* ClusterRoleBindings: the event is let through when the predicate is true.
\* listFails: the List of the ControlPlanes returns an error.
objHasControlplaneOwner(owners, listFails) ==
    IF listFails
    THEN FALSE
    ELSE \E controlplane \in controlplanes, i \in 1..Len(owners) :
            owners[i] = controlplane.uid

\* An event for a ClusterRole or a ClusterRoleBinding reaches the predicate.
ClusterRoleEvent ==
    \E kind \in {"ClusterRole", "ClusterRoleBinding"},
       owners \in {<<>>, <<UID("ControlPlane", 1)>>,
                   <<OtherUID("ControlPlane")>>},
       listFails \in BOOLEAN :
        /\ pass' = [NoPass EXCEPT
                       !.op = "objHasControlplaneOwner",
                       !.obj = UID(kind, 1), !.event = kind,
                       !.found.ControlPlane =
                           {owners[i] : i \in 1..Len(owners)},
                       !.err = listFails,
                       !.changed = objHasControlplaneOwner(owners, listFails)]
        /\ UNCHANGED <<gateway, gatewayClass, gatewayConfig, dataplanes,
                       controlplanes, services, secrets, deployments,
                       nextName, disturbances>>

NextControlPlane ==
    \/ ClusterRoleEvent
    \/ \E controlplane \in controlplanes :
          EnsureDeploymentForControlPlane(controlplane)
    \/ \E controlplane \in controlplanes, dataplane \in DataPlaneRefs,
          env \in ControlPlaneEnvs :
              UserEditsControlPlane(controlplane, dataplane, env)
    \/ \E deployment \in deployments, replicas \in ReplicaCounts :
          DeploymentScaled(deployment, replicas)
    \/ \E owner \in {UID("ControlPlane", 1), OtherUID("ControlPlane")},
          replicas \in ReplicaCounts, env \in ControlPlaneEnvs :
              WriterCreatesControlPlaneDeployment(owner, replicas, env)

SpecControlPlane == InitControlPlane /\ [][NextControlPlane]_vars

-----------------------------------------------------------------------------
(* internal/utils/gateway and controllers/gateway_controller_reconciler_utils *)

IsGatewayScheduled(gw) ==
    HasConditionTrue(gw.conditions, GatewayConditionScheduled)

IsGatewayReady(gw) ==
    HasConditionTrue(gw.conditions, GatewayConditionReady)

\* The conditions without the entries that a later entry of the same type
\* supersedes.
RECURSIVE PruneConditions(_)
PruneConditions(conditions) ==
    IF conditions = <<>> THEN <<>>
    ELSE IF HasCondition(Tail(conditions), Head(conditions).type)
         THEN PruneConditions(Tail(conditions))
         ELSE <<Head(conditions)>> \o PruneConditions(Tail(conditions))

PruneGatewayStatusConds(gw) ==
    [gw EXCEPT !.conditions = PruneConditions(@)]

LabelObjectAsGatewayManaged(obj) ==
    [obj EXCEPT !.labels = MergeLabels(obj.labels,
        OneLabel(GatewayOperatorControlledLabel, GatewayManagedLabelValue))]

ListDataPlanesForGateway(gw) ==
    ListForOwner(dataplanes, GatewayOperatorControlledLabel,
                 GatewayManagedLabelValue, gw.uid)

ListControlPlanesForGateway(gw) ==
    ListForOwner(controlplanes, GatewayOperatorControlledLabel,
                 GatewayManagedLabelValue, gw.uid)

\* [unsupported, err]: whether the Gateway is one of this controller's.
verifyGatewayClassSupport(gw) ==
    IF gw.gatewayClassName = ""
    THEN [unsupported |-> TRUE, err |-> FALSE]
    ELSE IF gatewayClass.name # gw.gatewayClassName
    THEN [unsupported |-> FALSE, err |-> TRUE]
    ELSE IF gatewayClass.controllerName # ControllerName
    THEN [unsupported |-> TRUE, err |-> FALSE]
    ELSE [unsupported |-> FALSE, err |-> FALSE]

\* The parametersRef is accepted whatever group and kind it names.
readsAnyKindOfParameters(ref) == FALSE

\* The parametersRef names another group or another kind than the
\* GatewayConfiguration of this operator.
isNotGatewayConfiguration(ref) ==
    \/ ref.group # "gateway-operator.konghq.com"
    \/ ref.kind # "GatewayConfiguration"

\* The GatewayConfiguration the parametersRef of the GatewayClass names.
\* err is "" when the call returns no error; obj is a pointer.
getGatewayConfigForGatewayClass(gwc) ==
    IF gwc.parametersRef = NilPtr
    THEN [err |-> "ErrObjectMissingParametersRef", obj |-> NilPtr]
    ELSE LET ref == gwc.parametersRef[1]
         IN  IF isNotGatewayConfiguration(ref)
             THEN [err |-> "Invalid", obj |-> NilPtr]
             ELSE IF \/ ref.namespace = NilPtr
                     \/ ref.namespace[1] = ""
                     \/ ref.name = ""
             THEN [err |-> "invalid ParametersRef", obj |-> NilPtr]
             ELSE IF \/ gatewayConfig.namespace # ref.namespace[1]
                     \/ gatewayConfig.name # ref.name
             THEN [err |-> "NotFound",
                   obj |-> Ptr(NewGatewayConfiguration(NilPtr, NilPtr))]
             ELSE [err |-> "", obj |-> Ptr(gatewayConfig)]

\* The GatewayConfiguration the GatewayClass refers to, or an empty one when
\* it has no parametersRef. err: the call returns an error, and obj is nil.
getOrCreateGatewayConfiguration ==
    LET got == getGatewayConfigForGatewayClass(gatewayClass)
    IN  IF got.err = "ErrObjectMissingParametersRef"
        THEN [err |-> FALSE,
              obj |-> Ptr(NewGatewayConfiguration(NilPtr, NilPtr))]
        ELSE IF got.err # ""
        THEN [err |-> TRUE, obj |-> NilPtr]
        ELSE [err |-> FALSE, obj |-> got.obj]

\* The configuration a pass works with. In a pass that returns the error of
\* getOrCreateGatewayConfiguration no step reads it, and an empty one stands
\* for it.
configurationOf(got) ==
    IF got.err THEN NewGatewayConfiguration(NilPtr, NilPtr) ELSE got.obj[1]

defaultsOnlyWithoutOptions(config) ==
    [config EXCEPT !.dataplaneOptions =
        IF @ = NilPtr THEN Ptr(SetDataPlaneDefaults(OptEmpty)) ELSE @]

setDataplaneGatewayConfigDefaults(config) ==
    [config EXCEPT !.dataplaneOptions =
        IF @ = NilPtr THEN Ptr(SetDataPlaneDefaults(OptEmpty))
        ELSE Ptr(SetDataPlaneDefaults(@[1]))]

\* The controlplane options are [dataplane, env]: the DataPlane the
\* ControlPlane serves and the env that addresses its Service.
setControlplaneGatewayConfigDefaults(config, dataplaneName, serviceName) ==
    LET options == IF config.controlplaneOptions = NilPtr
                   THEN [dataplane |-> NilPtr, env |-> <<>>]
                   ELSE config.controlplaneOptions[1]
    IN  [config EXCEPT !.controlplaneOptions = Ptr(
            [dataplane |-> IF options.dataplane = NilPtr
                              \/ options.dataplane[1] = EmptyString
                           THEN Ptr(NameString(dataplaneName))
                           ELSE options.dataplane,
             env |-> IF options.env = <<>> THEN PublishServiceEnv(serviceName)
                     ELSE options.env])]

dataplaneSpecDeepEqual(spec, options) == spec = options

controlplaneSpecDeepEqual(spec, options) == spec = options

GenerateNewDataPlaneForGateway(gw, config, name) ==
    NewDataPlane(name, <<>>, NoLabels,
        IF config.dataplaneOptions # NilPtr THEN config.dataplaneOptions[1]
        ELSE OptEmpty)

GenerateNewControlPlaneForGateway(class, gw, config, dataplaneName, name) ==
    LET options == IF config.controlplaneOptions # NilPtr
                   THEN config.controlplaneOptions[1]
                   ELSE [dataplane |-> NilPtr, env |-> <<>>]
    IN  NewControlPlane(name, <<>>, NoLabels,
            IF options.dataplane = NilPtr THEN Ptr(NameString(dataplaneName))
            ELSE options.dataplane,
            options.env)

KeepGatewayManagedDataPlanes(objs, count) == objs

\* More than one owned child: delete all DataPlanes that carry the
\* gateway-managed label.
DeleteGatewayManagedDataPlanes(objs, count) ==
    IF count > 1
    THEN DeleteAllOf(objs, GatewayOperatorControlledLabel, GatewayManagedLabelValue)
    ELSE objs

ensureDataPlaneForGateway(gw, config, name) ==
    LET owned == ListDataPlanesForGateway(gw)
        count == Cardinality(owned)
        found == {o.uid : o \in owned}
        left == DeleteGatewayManagedDataPlanes(dataplanes, count)
        deleted == IF count > 1 THEN <<Write("deleteAllOf", "DataPlane")>>
                   ELSE <<>>
        generatedDataplane == LabelObjectAsGatewayManaged(SetOwnerForObject(
            GenerateNewDataPlaneForGateway(gw, config, name), gw))
    IN  IF count = 1
        THEN LET existingDataplane == CHOOSE o \in owned : TRUE
                 meta == EnsureObjectMetaIsUpdated(existingDataplane,
                                                   generatedDataplane)
                 differs ==
                     /\ config.dataplaneOptions # NilPtr
                     /\ ~dataplaneSpecDeepEqual(meta.obj.spec,
                                                config.dataplaneOptions[1])
                 obj == IF differs
                        THEN [meta.obj EXCEPT
                                 !.spec = config.dataplaneOptions[1],
                                 !.generation = @ + 1]
                        ELSE meta.obj
             IN  IF meta.toUpdate \/ differs
                 THEN Ensured(TRUE, obj,
                              (dataplanes \ {existingDataplane}) \cup {obj},
                              <<Write("update", "DataPlane")>>, found)
                 ELSE Ensured(FALSE, existingDataplane, dataplanes, <<>>, found)
        ELSE Ensured(TRUE, generatedDataplane, left \cup {generatedDataplane},
                     deleted \o <<Write("create", "DataPlane")>>, found)

\* As Ensured, with the DataPlanes as the call leaves them: the DeleteAllOf of
\* this function names the DataPlane kind.
ensureControlPlaneForGateway(class, gw, config, dataplaneName, name, dps) ==
    LET owned == ListControlPlanesForGateway(gw)
        count == Cardinality(owned)
        found == {o.uid : o \in owned}
        leftDataplanes == DeleteGatewayManagedDataPlanes(dps, count)
        deleted == IF count > 1 THEN <<Write("deleteAllOf", "DataPlane")>>
                   ELSE <<>>
        generatedControlplane == LabelObjectAsGatewayManaged(SetOwnerForObject(
            GenerateNewControlPlaneForGateway(class, gw, config,
                                              dataplaneName, name), gw))
        result(changed, obj, objs, writes) ==
            [changed |-> changed, obj |-> obj, objs |-> objs,
             dataplanes |-> leftDataplanes, writes |-> writes, found |-> found]
    IN  IF count = 1
        THEN LET existingControlplane == CHOOSE o \in owned : TRUE
                 meta == EnsureObjectMetaIsUpdated(existingControlplane,
                                                   generatedControlplane)
                 options == config.controlplaneOptions
                 differs ==
                     /\ options # NilPtr
                     /\ ~controlplaneSpecDeepEqual(
                            [dataplane |-> meta.obj.dataplane,
                             env |-> meta.obj.env], options[1])
                 obj == IF differs
                        THEN [meta.obj EXCEPT
                                 !.dataplane = options[1].dataplane,
                                 !.env = options[1].env,
                                 !.generation = @ + 1]
                        ELSE meta.obj
             IN  IF meta.toUpdate \/ differs
                 THEN result(TRUE, obj,
                             (controlplanes \ {existingControlplane}) \cup {obj},
                             <<Write("update", "ControlPlane")>>)
                 ELSE result(FALSE, existingControlplane, controlplanes, <<>>)
        ELSE result(TRUE, generatedControlplane,
                    controlplanes \cup {generatedControlplane},
                    deleted \o <<Write("create", "ControlPlane")>>)

\* The addresses of the Gateway: the first load balancer IP of the Service,
\* if it has one, and then its ClusterIP.
gatewayAddresses(svc) ==
    (IF Len(svc.ingress) > 0 THEN <<svc.ingress[1].ip>> ELSE <<>>)
        \o <<svc.clusterIP>>

\* [obj: the Gateway as the call leaves it, writes, err].
ensureGatewayMarkedReady(gw, dataplane) ==
    LET owned == ListServicesForOwner(services, GatewayOperatorControlledLabel,
                     DataPlaneManagedLabelValue, dataplane.uid)
        count == Cardinality(owned)
        svc == CHOOSE o \in owned : TRUE
    IN  IF IsGatewayReady(gw)
        THEN [obj |-> gw, writes |-> <<>>, err |-> FALSE]
        ELSE IF count # 1 \/ svc.clusterIP = ""
        THEN [obj |-> gw, writes |-> <<>>, err |-> TRUE]
        ELSE [obj |-> [PruneGatewayStatusConds(gw) EXCEPT
                          !.addresses = gatewayAddresses(svc),
                          !.conditions = <<Condition(GatewayConditionReady,
                              ConditionTrue, GatewayReasonReady, "",
                              gw.generation)>>],
              writes |-> <<Write("updateStatus", "Gateway")>>,
              err |-> FALSE]

-----------------------------------------------------------------------------
(* controllers/gateway_controller: GatewayReconciler.Reconcile *)

getsDeletedGateway(gw) == FALSE

\* Client.Get of the Gateway named in the request answers NotFound.
gatewayIsNotFound(gw) == ~gw.exists

readyWithoutCondition(dataplane) == TRUE

dataplaneIsReady(dataplane) ==
    HasConditionTrue(dataplane.conditions, DataPlaneConditionTypeProvisioned)

alwaysReady(obj) == TRUE

controlplaneIsReady(controlplane) ==
    HasConditionTrue(controlplane.conditions, ControlPlaneConditionTypeProvisioned)

toleratesManyServices(svcs) == svcs = {}

\* The Services listed for the DataPlane are not exactly one.
serviceCountIsNotOne(svcs) == Cardinality(svcs) # 1

\* One pass over the Gateway as read: the cluster as the pass leaves it and
\* what the pass did. named: the pass created an object with a generated name.
\* config, dp, svcs and cp are what the steps of the pass return: the
\* result of getOrCreateGatewayConfiguration, the ensured DataPlane, the
\* Services listed for it and the ensured ControlPlane.
GatewayReconcilePass(gw, config, dp, svcs, cp) ==
    LET support == verifyGatewayClassSupport(gw)
        base == [gateway |-> gw, dataplanes |-> dataplanes,
                 controlplanes |-> controlplanes, outcome |-> "",
                 writes |-> <<>>, requeue |-> FALSE, err |-> FALSE,
                 found |-> NoneFound, dataplaneReady |-> FALSE,
                 controlplaneReady |-> FALSE, named |-> FALSE]
        scheduled == PruneGatewayStatusConds([gw EXCEPT !.conditions =
            Append(@, Condition(GatewayConditionScheduled, ConditionTrue,
                GatewayReasonScheduled,
                "this gateway has been picked up and will be processed",
                gw.generation))])
        ready == ensureGatewayMarkedReady(gw, dp.obj)
        afterDataplane ==
            [base EXCEPT !.dataplanes = dp.objs, !.writes = dp.writes,
                         !.found.DataPlane = dp.found,
                         !.named = dp.changed /\ Cardinality(dp.found) # 1]
        afterControlplane ==
            [afterDataplane EXCEPT
                !.dataplanes = cp.dataplanes, !.controlplanes = cp.objs,
                !.writes = @ \o cp.writes, !.found.ControlPlane = cp.found,
                !.dataplaneReady = TRUE,
                !.named = cp.changed /\ Cardinality(cp.found) # 1]
    IN  IF gatewayIsNotFound(gw)
        THEN [base EXCEPT !.outcome = "notFound"]
        ELSE IF support.unsupported
        THEN [base EXCEPT !.outcome = "unsupported"]
        ELSE IF support.err
        THEN [base EXCEPT !.outcome = "gatewayClassError", !.err = TRUE]
        ELSE IF ~IsGatewayScheduled(gw)
        THEN [base EXCEPT !.outcome = "scheduled", !.gateway = scheduled,
                          !.writes = <<Write("updateStatus", "Gateway")>>]
        ELSE IF config.err
        THEN [base EXCEPT !.outcome = "configurationError", !.err = TRUE]
        ELSE IF ~dataplaneIsReady(dp.obj)
        THEN [afterDataplane EXCEPT !.outcome = "waitDataPlane",
                                    !.requeue = TRUE]
        ELSE IF serviceCountIsNotOne(svcs)
        THEN [afterDataplane EXCEPT !.outcome = "serviceError", !.err = TRUE,
                                    !.dataplaneReady = TRUE]
        ELSE IF ~controlplaneIsReady(cp.obj)
        THEN [afterControlplane EXCEPT !.outcome = "waitControlPlane",
                                       !.requeue = TRUE]
        ELSE IF ready.err
        THEN [afterControlplane EXCEPT !.outcome = "readyError", !.err = TRUE,
                                       !.controlplaneReady = TRUE]
        ELSE [afterControlplane EXCEPT !.outcome = "ready",
                                       !.gateway = ready.obj,
                                       !.writes = @ \o ready.writes,
                                       !.controlplaneReady = TRUE]

\* What stands for the ensured ControlPlane in a pass that does not reach
\* ensureControlPlaneForGateway.
NotEnsured ==
    [changed |-> FALSE, obj |-> <<>>, objs |-> {}, dataplanes |-> {},
     writes |-> <<>>, found |-> {}]

GatewayReconcile ==
    \E got \in {getOrCreateGatewayConfiguration} :
    \E config \in {setDataplaneGatewayConfigDefaults(configurationOf(got))} :
    \E dp \in {ensureDataPlaneForGateway(gateway, config, nextName)} :
    \E svcs \in {ListServicesForOwner(services, GatewayOperatorControlledLabel,
                                      DataPlaneManagedLabelValue, dp.obj.uid)} :
    \E cp \in {IF serviceCountIsNotOne(svcs)
                THEN NotEnsured
                ELSE ensureControlPlaneForGateway(gatewayClass, gateway,
                         setControlplaneGatewayConfigDefaults(config, dp.obj.name,
                             (CHOOSE o \in svcs : TRUE).name),
                         dp.obj.name, nextName, dp.objs)} :
    \E r \in {GatewayReconcilePass(gateway, got, dp, svcs, cp)} :
        /\ r.named => nextName <= MaxNames
        /\ gateway' = r.gateway
        /\ dataplanes' = r.dataplanes
        /\ controlplanes' = r.controlplanes
        /\ nextName' = IF r.named THEN nextName + 1 ELSE nextName
        /\ pass' = [NoPass EXCEPT !.op = "Gateway", !.obj = gateway.uid,
                                  !.outcome = r.outcome, !.writes = r.writes,
                                  !.requeue = r.requeue, !.err = r.err,
                                  !.found = r.found,
                                  !.dataplaneReady = r.dataplaneReady,
                                  !.controlplaneReady = r.controlplaneReady]
        /\ UNCHANGED <<gatewayClass, gatewayConfig, services, secrets,
                       deployments, disturbances>>

-----------------------------------------------------------------------------
(* The cluster around the Gateway reconciler: the reconcilers of its        *)
(* children, which act on the children the Gateway reconciler lists, and    *)
(* other writers.                                                           *)

\* The DataPlane reconciler has brought the DataPlane up: it owns a Service
\* with a ClusterIP and is marked as provisioned.
DataPlaneComesUp(dataplane) ==
    /\ ~HasConditionTrue(dataplane.conditions, DataPlaneConditionTypeProvisioned)
    /\ dataplanes' = (dataplanes \ {dataplane}) \cup
          {[dataplane EXCEPT !.conditions =
              <<Condition(DataPlaneConditionTypeProvisioned, ConditionTrue,
                          DataPlaneConditionReasonPodsReady,
                          "pods for all Deployments are ready",
                          dataplane.generation)>>]}
    /\ services' =
          IF OwnedServices(dataplane.uid) # {} THEN services
          ELSE services \cup {[labelObjForDataplane(SetOwnerForObject(
                   generateNewServiceForDataplane(dataplane,
                                                  FreshName(services)),
                   dataplane)) EXCEPT !.clusterIP = "10.0.0.1"]}
    /\ pass' = NoPass
    /\ UNCHANGED <<gateway, gatewayClass, gatewayConfig, controlplanes,
                   secrets, deployments, nextName, disturbances>>

\* The DataPlane reconciler marks a provisioned DataPlane as not provisioned.
DataPlaneGoesDown(dataplane) ==
    /\ HasConditionTrue(dataplane.conditions, DataPlaneConditionTypeProvisioned)
    /\ dataplanes' = (dataplanes \ {dataplane}) \cup
          {ensureDataPlaneIsMarkedNotProvisioned(dataplane,
               DataPlaneConditionValidationFailed, "bad1 is not supported").obj}
    /\ pass' = NoPass
    /\ UNCHANGED <<gateway, gatewayClass, gatewayConfig, controlplanes,
                   services, secrets, deployments, nextName, disturbances>>

\* The ControlPlane reconciler changes the Provisioned condition.
ControlPlaneStatusChanges(controlplane, status) ==
    /\ controlplaneIsReady(controlplane) # (status = ConditionTrue)
    /\ controlplanes' = (controlplanes \ {controlplane}) \cup
          {[controlplane EXCEPT !.conditions =
              <<Condition(ControlPlaneConditionTypeProvisioned, status,
                          IF status = ConditionTrue
                          THEN ControlPlaneConditionReasonPodsReady
                          ELSE ControlPlaneConditionReasonPodsNotReady,
                          "", controlplane.generation)>>]}
    /\ pass' = NoPass
    /\ UNCHANGED <<gateway, gatewayClass, gatewayConfig, dataplanes,
                   services, secrets, deployments, nextName, disturbances>>

\* Another writer creates a DataPlane with the gateway-managed label.
WriterCreatesDataPlane(owner) ==
    /\ disturbances < MaxDisturbances
    /\ nextName <= MaxNames
    /\ disturbances' = disturbances + 1
    /\ nextName' = nextName + 1
    /\ dataplanes' = dataplanes \cup
          {LabelObjectAsGatewayManaged(
               NewDataPlane(nextName, <<owner>>, NoLabels, OptCustom))}
    /\ pass' = NoPass
    /\ UNCHANGED <<gateway, gatewayClass, gatewayConfig, controlplanes,
                   services, secrets, deployments>>

\* Another writer creates a ControlPlane with the gateway-managed label.
WriterCreatesControlPlane(owner) ==
    /\ disturbances < MaxDisturbances
    /\ nextName <= MaxNames
    /\ disturbances' = disturbances + 1
    /\ nextName' = nextName + 1
    /\ controlplanes' = controlplanes \cup
          {LabelObjectAsGatewayManaged(
               NewControlPlane(nextName, <<owner>>, NoLabels, NilPtr, <<>>))}
    /\ pass' = NoPass
    /\ UNCHANGED <<gateway, gatewayClass, gatewayConfig, dataplanes,
                   services, secrets, deployments>>

GatewayOwners == {UID("Gateway", 1), OtherUID("Gateway")}

InitGateway ==
    /\ gateway = NewGateway
    /\ \E ref \in {NilPtr, Ptr(ConfigurationReference)} :
          gatewayClass = [NewGatewayClass EXCEPT !.parametersRef = ref]
    /\ gatewayConfig = NewGatewayConfiguration(Ptr(OptCustom), NilPtr)
    /\ dataplanes = {}
    /\ controlplanes = {}
    /\ services = {}
    /\ secrets = {}
    /\ deployments = {}
    /\ nextName = 1
    /\ disturbances = 0
    /\ pass = NoPass

NextGateway ==
    \/ GatewayReconcile
    \/ \E dataplane \in ListDataPlanesForGateway(gateway) :
          DataPlaneComesUp(dataplane)
    \/ \E dataplane \in ListDataPlanesForGateway(gateway) :
          DataPlaneGoesDown(dataplane)
    \/ \E controlplane \in ListControlPlanesForGateway(gateway),
          status \in {ConditionTrue, ConditionFalse} :
              ControlPlaneStatusChanges(controlplane, status)
    \/ \E owner \in GatewayOwners : WriterCreatesDataPlane(owner)
    \/ \E owner \in GatewayOwners : WriterCreatesControlPlane(owner)

SpecGateway == InitGateway /\ [][NextGateway]_vars

\* The GatewayClasses a Gateway may meet: the one it names, handled by this
\* controller; the one it names, handled by another controller; and one of
\* another name, the one it names being absent.
GatewayClasses ==
    {NewGatewayClass,
     [NewGatewayClass EXCEPT !.controllerName = "example.com/other"],
     [NewGatewayClass EXCEPT !.name = "other"]}

InitGatewayOfAnyClass ==
    /\ \E name \in {"kong", ""} :
          gateway = [NewGateway EXCEPT !.gatewayClassName = name]
    /\ gatewayClass \in GatewayClasses
    /\ gatewayConfig = NewGatewayConfiguration(Ptr(OptCustom), NilPtr)
    /\ dataplanes = {}
    /\ controlplanes = {}
    /\ services = {}
    /\ secrets = {}
    /\ deployments = {}
    /\ nextName = 1
    /\ disturbances = 0
    /\ pass = NoPass

SpecGatewayOfAnyClass == InitGatewayOfAnyClass /\ [][NextGateway]_vars

\* The Gateway of a supported GatewayClass with any parametersRef: none, the
\* one that names the GatewayConfiguration, one of another group, one of
\* another kind, one without namespace, one with an empty namespace, one
\* without name, and one that names a GatewayConfiguration that is absent.
InitGatewayParameters ==
    /\ gateway = NewGateway
    /\ \E ref \in {NilPtr, Ptr(ConfigurationReference),
                   Ptr([ConfigurationReference EXCEPT !.group = "example.com"]),
                   Ptr([ConfigurationReference EXCEPT !.kind = "ConfigMap"]),
                   Ptr([ConfigurationReference EXCEPT !.namespace = NilPtr]),
                   Ptr([ConfigurationReference EXCEPT !.namespace = Ptr("")]),
                   Ptr([ConfigurationReference EXCEPT !.name = ""]),
                   Ptr([ConfigurationReference EXCEPT !.name = "absent"])} :
          gatewayClass = [NewGatewayClass EXCEPT !.parametersRef = ref]
    /\ gatewayConfig = NewGatewayConfiguration(Ptr(OptCustom), NilPtr)
    /\ dataplanes = {}
    /\ controlplanes = {}
    /\ services = {}
    /\ secrets = {}
    /\ deployments = {}
    /\ nextName = 1
    /\ disturbances = 0
    /\ pass = NoPass

SpecGatewayParameters == InitGatewayParameters /\ [][NextGateway]_vars

-----------------------------------------------------------------------------
(* The Gateway reconciler together with the reconcilers of its children and  *)
(* the cluster they wait for, with no other writer: every reconciler is      *)
(* re-run by the watch events of the objects it reads, the API server        *)
(* assigns ClusterIPs and the Deployment controller brings Deployments up.   *)

\* The entries a load balancer puts in status.loadBalancer.ingress of a
\* Service: one with an IP, or one with a hostname and no IP.
LoadBalancerIngresses ==
    {[ip |-> "192.0.2.1", hostname |-> ""],
     [ip |-> "", hostname |-> "lb.example.com"]}

IPAddresses == {"10.0.0.1", "192.0.2.1"}

\* The load balancer of the cluster reports the ingress point of a Service.
ServiceGetsLoadBalancerIngress(service, entry) ==
    /\ service.ingress = <<>>
    /\ services' = (services \ {service})
                     \cup {[service EXCEPT !.ingress = <<entry>>]}
    /\ pass' = NoPass
    /\ UNCHANGED <<gateway, gatewayClass, gatewayConfig, dataplanes,
                   controlplanes, secrets, deployments, nextName, disturbances>>

DataPlaneReconciles == \E dataplane \in dataplanes : DataPlaneReconcile(dataplane)

ClusterIPAssigned == \E service \in services : ServiceGetsClusterIP(service)

DeploymentBecomesAvailable ==
    \E deployment \in deployments : DeploymentStatusChanges(deployment, <<1, 1>>)

ControlPlaneComesUp ==
    \E controlplane \in ListControlPlanesForGateway(gateway) :
        ControlPlaneStatusChanges(controlplane, ConditionTrue)

LoadBalancerReports ==
    \E service \in services, entry \in LoadBalancerIngresses :
        ServiceGetsLoadBalancerIngress(service, entry)

NextConverge ==
    \/ GatewayReconcile
    \/ DataPlaneReconciles
    \/ ClusterIPAssigned
    \/ DeploymentBecomesAvailable
    \/ ControlPlaneComesUp
    \/ LoadBalancerReports
    \/ \E controlplane \in controlplanes :
          EnsureDeploymentForControlPlane(controlplane)

SpecConverge ==
    /\ InitGateway
    /\ [][NextConverge]_vars
    /\ WF_vars(GatewayReconcile)
    /\ WF_vars(DataPlaneReconciles)
    /\ WF_vars(ClusterIPAssigned)
    /\ WF_vars(DeploymentBecomesAvailable)
    /\ WF_vars(ControlPlaneComesUp)

\* The Gateway and the DataPlane reconciler on the same DataPlane: the
\* GatewayConfiguration has dataplane options with or without env, and the
\* env of the DataPlane is cleared while both reconcilers run.
InitDefaults ==
    /\ gateway = NewGateway
    /\ \E ref \in {NilPtr, Ptr(ConfigurationReference)} :
          gatewayClass = [NewGatewayClass EXCEPT !.parametersRef = ref]
    /\ \E options \in {NilPtr, Ptr(OptEmpty), Ptr(OptCustom)} :
          gatewayConfig = NewGatewayConfiguration(options, NilPtr)
    /\ dataplanes = {}
    /\ controlplanes = {}
    /\ services = {}
    /\ secrets = {}
    /\ deployments = {}
    /\ nextName = 1
    /\ disturbances = 0
    /\ pass = NoPass

DataPlaneEnvCleared ==
    \E dataplane \in dataplanes : UserEditsDataPlane(dataplane, OptEmpty)

NextDefaults ==
    \/ GatewayReconcile
    \/ DataPlaneReconciles
    \/ ClusterIPAssigned
    \/ DeploymentBecomesAvailable
    \/ ControlPlaneComesUp
    \/ DataPlaneEnvCleared

SpecDefaults ==
    /\ InitDefaults
    /\ [][NextDefaults]_vars
    /\ WF_vars(GatewayReconcile)
    /\ WF_vars(DataPlaneReconciles)
    /\ WF_vars(ClusterIPAssigned)
    /\ WF_vars(DeploymentBecomesAvailable)
    /\ WF_vars(ControlPlaneComesUp)

-----------------------------------------------------------------------------
(* The deletion of the Gateway: the object is gone from the API server, the *)
(* garbage collector removes the objects whose owner references name it,    *)
(* and the deletion event triggers a last pass for the Gateway.             *)

GatewayDeleted ==
    /\ gateway.exists
    /\ gateway' = [gateway EXCEPT !.exists = FALSE]
    /\ pass' = NoPass
    /\ UNCHANGED <<gatewayClass, gatewayConfig, dataplanes, controlplanes,
                   services, secrets, deployments, nextName, disturbances>>

\* The owner-reference garbage collector deletes an object all of whose
\* owners are gone.
Orphaned(obj) ==
    /\ obj.ownerReferences # <<>>
    /\ \A i \in 1..Len(obj.ownerReferences) :
          obj.ownerReferences[i] = gateway.uid /\ ~gateway.exists

GarbageCollectsDataPlane ==
    \E dataplane \in dataplanes :
        /\ Orphaned(dataplane)
        /\ dataplanes' = dataplanes \ {dataplane}
        /\ pass' = NoPass
        /\ UNCHANGED <<gateway, gatewayClass, gatewayConfig, controlplanes,
                       services, secrets, deployments, nextName, disturbances>>

GarbageCollectsControlPlane ==
    \E controlplane \in controlplanes :
        /\ Orphaned(controlplane)
        /\ controlplanes' = controlplanes \ {controlplane}
        /\ pass' = NoPass
        /\ UNCHANGED <<gateway, gatewayClass, gatewayConfig, dataplanes,
                       services, secrets, deployments, nextName, disturbances>>

DataPlaneRequests ==
    \E name \in 1..MaxNames : DataPlaneReconcileRequest(name)

NextTeardown ==
    \/ GatewayReconcile
    \/ DataPlaneRequests
    \/ ClusterIPAssigned
    \/ DeploymentBecomesAvailable
    \/ ControlPlaneComesUp
    \/ GatewayDeleted
    \/ GarbageCollectsDataPlane
    \/ GarbageCollectsControlPlane

SpecTeardown ==
    /\ InitGateway
    /\ [][NextTeardown]_vars
    /\ WF_vars(GatewayReconcile)
    /\ WF_vars(GarbageCollectsDataPlane)
    /\ WF_vars(GarbageCollectsControlPlane)

-----------------------------------------------------------------------------
(* The status conditions of the three kinds: the status helpers of the      *)
(* ControlPlane reconciler, each a step that persists what it changed, next *)
(* to the passes of the Gateway and the DataPlane reconcilers.              *)

\* The conditions with a PodsNotReady Provisioned condition appended when the
\* list has no Provisioned condition.
ensureControlPlaneIsMarkedScheduled(controlplane) ==
    IF HasCondition(controlplane.conditions, ControlPlaneConditionTypeProvisioned)
    THEN [changed |-> FALSE, obj |-> controlplane]
    ELSE [changed |-> TRUE,
          obj |-> [controlplane EXCEPT !.conditions = Append(@,
              Condition(ControlPlaneConditionTypeProvisioned, ConditionFalse,
                        ControlPlaneConditionReasonPodsNotReady,
                        "ControlPlane resource is scheduled for provisioning",
                        controlplane.generation))]]

\* Every Provisioned condition rewritten in place, the other entries kept.
ensureControlPlaneIsMarkedProvisioned(controlplane) ==
    [controlplane EXCEPT !.conditions =
        [i \in 1..Len(@) |->
            IF @[i].type = ControlPlaneConditionTypeProvisioned
            THEN Condition(ControlPlaneConditionTypeProvisioned, ConditionTrue,
                           ControlPlaneConditionReasonPodsReady,
                           "pods for all Deployments are ready",
                           controlplane.generation)
            ELSE @[i]]]

\* The Provisioned conditions that change with the DataPlane reference being
\* set or unset; when there is one, the list is replaced by them.
ensureDataPlaneStatus(controlplane) ==
    LET conds == controlplane.conditions
        isSet == dataplaneIsSet(controlplane)
        toNoDataplane(i) ==
            /\ conds[i].type = ControlPlaneConditionTypeProvisioned
            /\ ~isSet
            /\ conds[i].reason # ControlPlaneConditionReasonNoDataplane
        toPodsNotReady(i) ==
            /\ conds[i].type = ControlPlaneConditionTypeProvisioned
            /\ isSet
            /\ conds[i].reason = ControlPlaneConditionReasonNoDataplane
        changing == SelectSeq([i \in 1..Len(conds) |-> i],
                        LAMBDA i : toNoDataplane(i) \/ toPodsNotReady(i))
        updatedConditions == [k \in 1..Len(changing) |->
            IF toNoDataplane(changing[k])
            THEN Condition(ControlPlaneConditionTypeProvisioned, ConditionFalse,
                           ControlPlaneConditionReasonNoDataplane,
                           "DataPlane is not set", controlplane.generation)
            ELSE Condition(ControlPlaneConditionTypeProvisioned, ConditionFalse,
                           ControlPlaneConditionReasonPodsNotReady,
                           "DataPlane was set, ControlPlane resource is scheduled for provisioning",
                           controlplane.generation)]
    IN  IF Len(updatedConditions) > 0
        THEN [changed |-> TRUE,
              obj |-> [controlplane EXCEPT !.conditions = updatedConditions]]
        ELSE [changed |-> FALSE, obj |-> controlplane]

\* A status helper of the ControlPlane reconciler ran and persisted r.obj.
ControlPlaneStatusUpdate(controlplane, helper, obj) ==
    /\ controlplanes' = (controlplanes \ {controlplane}) \cup {obj}
    /\ pass' = [NoPass EXCEPT !.op = "ControlPlaneStatus",
                              !.obj = controlplane.uid,
                              !.outcome = helper, !.changed = TRUE,
                              !.writes = <<Write("updateStatus", "ControlPlane")>>]
    /\ UNCHANGED <<gateway, gatewayClass, gatewayConfig, dataplanes,
                   services, secrets, deployments, nextName, disturbances>>

ControlPlaneIsMarkedScheduled ==
    \E controlplane \in controlplanes :
    \E r \in {ensureControlPlaneIsMarkedScheduled(controlplane)} :
        /\ r.changed
        /\ ControlPlaneStatusUpdate(controlplane,
               "ensureControlPlaneIsMarkedScheduled", r.obj)

ControlPlaneDataPlaneStatus ==
    \E controlplane \in controlplanes :
    \E r \in {ensureDataPlaneStatus(controlplane)} :
        /\ r.changed
        /\ ControlPlaneStatusUpdate(controlplane, "ensureDataPlaneStatus", r.obj)

ControlPlaneIsMarkedProvisioned ==
    \E controlplane \in controlplanes :
        ControlPlaneStatusUpdate(controlplane,
               "ensureControlPlaneIsMarkedProvisioned",
               ensureControlPlaneIsMarkedProvisioned(controlplane))

DataPlaneEdited ==
    \E dataplane \in dataplanes, spec \in DataPlaneSpecs :
        UserEditsDataPlane(dataplane, spec)

\* Another client of the API adds a condition of a type of its own to the
\* status of a ControlPlane; the reconciler reads it with the others.
ControlPlaneGetsCondition ==
    \E controlplane \in controlplanes :
        /\ disturbances < MaxDisturbances
        /\ disturbances' = disturbances + 1
        /\ ~HasCondition(controlplane.conditions, "Ready")
        /\ controlplanes' = (controlplanes \ {controlplane})
              \cup {[controlplane EXCEPT !.conditions =
                        Append(@, Condition("Ready", ConditionFalse, "Pending",
                                            "", controlplane.generation))]}
        /\ pass' = NoPass
        /\ UNCHANGED <<gateway, gatewayClass, gatewayConfig, dataplanes,
                       services, secrets, deployments, nextName>>

ControlPlaneEdited ==
    \E controlplane \in controlplanes, dataplane \in DataPlaneRefs :
        UserEditsControlPlane(controlplane, dataplane, controlplane.env)

NextConditions ==
    \/ GatewayReconcile
    \/ DataPlaneReconciles
    \/ ClusterIPAssigned
    \/ DeploymentBecomesAvailable
    \/ ControlPlaneIsMarkedScheduled
    \/ ControlPlaneDataPlaneStatus
    \/ ControlPlaneIsMarkedProvisioned
    \/ DataPlaneEdited
    \/ ControlPlaneEdited
    \/ ControlPlaneGetsCondition

SpecConditions == InitGateway /\ [][NextConditions]_vars

-----------------------------------------------------------------------------
(* The three reconcilers in one system, next to writers that give an owned  *)
(* child a second owner reference, duplicate a Service or delete one.       *)

\* Another writer adds an owner reference to an object that has one.
OwnerReferenceAdded ==
    LET WithOwnerAdded(objs, obj, owner) ==
            (objs \ {obj})
                \cup {[obj EXCEPT !.ownerReferences = Append(@, owner)]}
    IN  /\ disturbances < MaxDisturbances
        /\ disturbances' = disturbances + 1
        /\ pass' = NoPass
        /\ UNCHANGED <<gateway, gatewayClass, gatewayConfig, nextName>>
        /\ \/ \E obj \in deployments :
                /\ Len(obj.ownerReferences) = 1
                /\ deployments' =
                      WithOwnerAdded(deployments, obj, OtherUID("DataPlane"))
                /\ UNCHANGED <<services, secrets, dataplanes, controlplanes>>
           \/ \E obj \in services :
                /\ Len(obj.ownerReferences) = 1
                /\ services' =
                      WithOwnerAdded(services, obj, OtherUID("DataPlane"))
                /\ UNCHANGED <<deployments, secrets, dataplanes, controlplanes>>
           \/ \E obj \in secrets :
                /\ Len(obj.ownerReferences) = 1
                /\ secrets' =
                      WithOwnerAdded(secrets, obj, OtherUID("DataPlane"))
                /\ UNCHANGED <<deployments, services, dataplanes, controlplanes>>
           \/ \E obj \in dataplanes :
                /\ Len(obj.ownerReferences) = 1
                /\ dataplanes' =
                      WithOwnerAdded(dataplanes, obj, OtherUID("Gateway"))
                /\ UNCHANGED <<deployments, services, secrets, controlplanes>>
           \/ \E obj \in controlplanes :
                /\ Len(obj.ownerReferences) = 1
                /\ controlplanes' =
                      WithOwnerAdded(controlplanes, obj, OtherUID("Gateway"))
                /\ UNCHANGED <<deployments, services, secrets, dataplanes>>

\* Another writer, or a user, deletes a Service.
ServiceDeleted(service) ==
    /\ disturbances < MaxDisturbances
    /\ disturbances' = disturbances + 1
    /\ services' = services \ {service}
    /\ pass' = NoPass
    /\ UNCHANGED <<gateway, gatewayClass, gatewayConfig, dataplanes,
                   controlplanes, secrets, deployments, nextName>>

NextOwnedChildren ==
    \/ GatewayReconcile
    \/ DataPlaneReconciles
    \/ \E controlplane \in controlplanes :
          EnsureDeploymentForControlPlane(controlplane)
    \/ ClusterIPAssigned
    \/ DeploymentBecomesAvailable
    \/ OwnerReferenceAdded
    \/ \E dataplane \in dataplanes :
          WriterCreatesService(dataplane.uid,
              OneLabel(GatewayOperatorControlledLabel, DataPlaneManagedLabelValue))
    \/ \E service \in services : ServiceDeleted(service)
    \/ ControlPlaneEdited

SpecOwnedChildren == InitGateway /\ [][NextOwnedChildren]_vars

-----------------------------------------------------------------------------
(* controllers/gateway_controller.go: the Reconcile of that file, which     *)
(* looks its DataPlane and its ControlPlane up by a name derived from the   *)
(* name of the Gateway.                                                     *)

GatewayReconcileByName ==
    LET dataplaneNSN == <<"dataplane-", gateway.name>>
        controlplaneNSN == <<"controlplane-", gateway.name>>
        support == verifyGatewayClassSupport(gateway)
        got == getOrCreateGatewayConfiguration
        config == setDataplaneGatewayConfigDefaults(configurationOf(got))
        gotDataplanes == {d \in dataplanes : d.name = dataplaneNSN}
        gotControlplanes == {c \in controlplanes : c.name = controlplaneNSN}
        dataplane == CHOOSE d \in gotDataplanes : TRUE
        controlplane == CHOOSE c \in gotControlplanes : TRUE
        options == config.controlplaneOptions
        ready == ensureGatewayMarkedReady(gateway, dataplane)
        done(outcome, writes, requeue, err, found) ==
            pass' = [NoPass EXCEPT !.op = "GatewayByName", !.obj = gateway.uid,
                                   !.outcome = outcome, !.writes = writes,
                                   !.requeue = requeue, !.err = err,
                                   !.found = found]
        foundDataplane ==
            [NoneFound EXCEPT !.DataPlane = {d.uid : d \in gotDataplanes}]
        foundBoth ==
            [foundDataplane EXCEPT
                !.ControlPlane = {c.uid : c \in gotControlplanes}]
    IN  /\ UNCHANGED <<gatewayClass, gatewayConfig, services, secrets,
                       deployments, nextName, disturbances>>
        /\ IF gatewayIsNotFound(gateway)
           THEN /\ done("notFound", <<>>, FALSE, FALSE, NoneFound)
                /\ UNCHANGED <<gateway, dataplanes, controlplanes>>
           ELSE IF support.unsupported \/ support.err
           THEN /\ done("unsupported", <<>>, FALSE, support.err, NoneFound)
                /\ UNCHANGED <<gateway, dataplanes, controlplanes>>
           ELSE IF ~IsGatewayScheduled(gateway)
           THEN /\ gateway' = PruneGatewayStatusConds([gateway EXCEPT
                       !.conditions = Append(@,
                           Condition(GatewayConditionScheduled, ConditionTrue,
                               GatewayReasonScheduled,
                               "this gateway has been picked up and will be processed",
                               gateway.generation))])
                /\ done("scheduled", <<Write("updateStatus", "Gateway")>>,
                        FALSE, FALSE, NoneFound)
                /\ UNCHANGED <<dataplanes, controlplanes>>
           ELSE IF got.err
           THEN /\ done("configurationError", <<>>, FALSE, TRUE, NoneFound)
                /\ UNCHANGED <<gateway, dataplanes, controlplanes>>
           ELSE IF gotDataplanes = {}
           THEN /\ dataplanes' = dataplanes \cup
                       {LabelObjectAsGatewayManaged(SetOwnerForObject(
                            GenerateNewDataPlaneForGateway(gateway, config,
                                                           dataplaneNSN),
                            gateway))}
                /\ done("createDataPlane", <<Write("create", "DataPlane")>>,
                        TRUE, FALSE, NoneFound)
                /\ UNCHANGED <<gateway, controlplanes>>
           ELSE IF /\ config.dataplaneOptions # NilPtr
                   /\ ~dataplaneSpecDeepEqual(dataplane.spec,
                                              config.dataplaneOptions[1])
           THEN /\ dataplanes' = (dataplanes \ {dataplane}) \cup
                       {[dataplane EXCEPT !.spec = config.dataplaneOptions[1],
                                          !.generation = @ + 1]}
                /\ done("updateDataPlane", <<Write("update", "DataPlane")>>,
                        TRUE, FALSE, foundDataplane)
                /\ UNCHANGED <<gateway, controlplanes>>
           ELSE IF ~dataplaneIsReady(dataplane)
           THEN /\ done("waitDataPlane", <<>>, TRUE, FALSE, foundDataplane)
                /\ UNCHANGED <<gateway, dataplanes, controlplanes>>
           ELSE IF gotControlplanes = {}
           THEN /\ controlplanes' = controlplanes \cup
                       {LabelObjectAsGatewayManaged(SetOwnerForObject(
                            GenerateNewControlPlaneForGateway(gatewayClass,
                                gateway, config, dataplane.name,
                                controlplaneNSN),
                            gateway))}
                /\ done("createControlPlane",
                        <<Write("create", "ControlPlane")>>, TRUE, FALSE,
                        foundDataplane)
                /\ UNCHANGED <<gateway, dataplanes>>
           ELSE IF /\ options # NilPtr
                   /\ ~controlplaneSpecDeepEqual(
                          [dataplane |-> controlplane.dataplane,
                           env |-> controlplane.env], options[1])
           THEN /\ controlplanes' = (controlplanes \ {controlplane}) \cup
                       {[controlplane EXCEPT
                            !.dataplane = options[1].dataplane,
                            !.env = options[1].env, !.generation = @ + 1]}
                /\ done("updateControlPlane",
                        <<Write("update", "ControlPlane")>>, TRUE, FALSE,
                        foundBoth)
                /\ UNCHANGED <<gateway, dataplanes>>
           ELSE IF ~controlplaneIsReady(controlplane)
           THEN /\ done("waitControlPlane", <<>>, TRUE, FALSE, foundBoth)
                /\ UNCHANGED <<gateway, dataplanes, controlplanes>>
           ELSE /\ gateway' = ready.obj
                /\ done("ready", ready.writes, FALSE, ready.err, foundBoth)
                /\ UNCHANGED <<dataplanes, controlplanes>>

\* Another writer creates a DataPlane or a ControlPlane that has the name the
\* Reconcile of gateway_controller.go derives from the Gateway, with or
\* without the owner reference and the label of the Gateway's children.
WriterCreatesNamedChild(owned, spec) ==
    LET meta(obj) == IF owned
                     THEN LabelObjectAsGatewayManaged(
                              SetOwnerForObject(obj, gateway))
                     ELSE obj
    IN  /\ disturbances < MaxDisturbances
        /\ disturbances' = disturbances + 1
        /\ pass' = NoPass
        /\ UNCHANGED <<gateway, gatewayClass, gatewayConfig, services,
                       secrets, deployments, nextName>>
        /\ \/ /\ \A d \in dataplanes : d.name # <<"dataplane-", gateway.name>>
              /\ dataplanes' = dataplanes \cup
                    {meta(NewDataPlane(<<"dataplane-", gateway.name>>, <<>>,
                                       NoLabels, spec))}
              /\ UNCHANGED controlplanes
           \/ /\ \A c \in controlplanes :
                    c.name # <<"controlplane-", gateway.name>>
              /\ controlplanes' = controlplanes \cup
                    {meta(NewControlPlane(<<"controlplane-", gateway.name>>,
                                          <<>>, NoLabels, NilPtr, <<>>))}
              /\ UNCHANGED dataplanes

NextGatewayByName ==
    \/ GatewayReconcileByName
    \/ \E dataplane \in dataplanes : DataPlaneComesUp(dataplane)
    \/ \E dataplane \in dataplanes : DataPlaneGoesDown(dataplane)
    \/ \E controlplane \in controlplanes,
          status \in {ConditionTrue, ConditionFalse} :
              ControlPlaneStatusChanges(controlplane, status)
    \/ \E owned \in BOOLEAN, spec \in DataPlaneSpecs :
          WriterCreatesNamedChild(owned, spec)

SpecGatewayByName == InitGateway /\ [][NextGatewayByName]_vars

-----------------------------------------------------------------------------
(* internal/utils/kubernetes/metadata: EnsureObjectMetaIsUpdated applied to  *)
(* the metadata an ensure step can meet on a listed child and on the object  *)
(* it generates.                                                             *)

\* A child as an ensure step lists it: it carries the provenance label the
\* list selects by, next to no, one or two other labels, and no, one or two
\* owner references.
InitObjectMeta ==
    /\ gateway = NewGateway
    /\ gatewayClass = NewGatewayClass
    /\ gatewayConfig = NewGatewayConfiguration(<<>>, <<>>)
    /\ dataplanes = {NewDataPlane(1, <<>>, NoLabels, OptCustom),
                     NewDataPlane(2, <<>>, NoLabels, OptCustom)}
    /\ controlplanes = {}
    /\ services = {}
    /\ secrets = {}
    /\ \E owners \in {<<>>, <<UID("DataPlane", 1)>>, <<UID("DataPlane", 2)>>,
                       <<OtherUID("DataPlane")>>,
                       <<UID("DataPlane", 1), OtherUID("DataPlane")>>},
          other \in {NoLabels, OneLabel("app", "old"), OneLabel("app", "kong"),
                     OneLabel("team", "a"), OneLabel("tier", "a"),
                     MergeLabels(OneLabel("app", "old"), OneLabel("team", "a"))} :
          deployments =
              {[generateNewDeploymentForDataPlane(
                    NewDataPlane(1, <<>>, NoLabels, OptCustom), 1)
                  EXCEPT !.ownerReferences = owners,
                         !.labels = MergeLabels(other,
                             OneLabel(GatewayOperatorControlledLabel,
                                      DataPlaneManagedLabelValue))]}
    /\ nextName = 3
    /\ disturbances = 0
    /\ pass = NoPass

\* One call of EnsureObjectMetaIsUpdated on the child and a generated
\* object, whose metadata holds the owner and the provenance label, alone or
\* next to another label; the child is left with the metadata returned.
ObjectMetaEnsured ==
    \E existingObj \in deployments, dataplane \in dataplanes,
       other \in {NoLabels, OneLabel("app", "kong"), OneLabel("tier", "b")} :
    \E generatedObj \in
          {[labelObjForDataplane(SetOwnerForObject(
                generateNewDeploymentForDataPlane(dataplane, existingObj.name),
                dataplane))
             EXCEPT !.labels = MergeLabels(@, other)]} :
    \E r \in {EnsureObjectMetaIsUpdated(existingObj, generatedObj)} :
        /\ deployments' = (deployments \ {existingObj}) \cup {r.obj}
        /\ pass' = [NoPass EXCEPT !.op = "EnsureObjectMetaIsUpdated",
                                  !.obj = generatedObj,
                                  !.changed = r.toUpdate]
        /\ UNCHANGED <<gateway, gatewayClass, gatewayConfig, dataplanes,
                       controlplanes, services, secrets, nextName,
                       disturbances>>

SpecObjectMeta == InitObjectMeta /\ [][ObjectMetaEnsured]_vars

-----------------------------------------------------------------------------
(* Properties of the DataPlane reconciler *)

DataPlanePass == pass.op = "DataPlane"

\* C1: a pass of the DataPlane reconciler that lists k > 1 owned Deployments
\* (Services) at its ensure step deletes all k of them and creates exactly
\* one, so the DataPlane owns exactly one Deployment (Service) afterwards.
C1_DuplicatesReplacedByOne ==
    DataPlanePass =>
        /\ Cardinality(pass.found.Deployment) > 1 =>
              /\ pass.writes = <<Write("deleteAllOf", "Deployment"),
                                 Write("create", "Deployment")>>
              /\ \A d \in deployments : d.uid \notin pass.found.Deployment
              /\ Cardinality(OwnedDeployments(pass.obj)) = 1
        /\ Cardinality(pass.found.Service) > 1 =>
              /\ pass.writes[1] = Write("deleteAllOf", "Service")
              /\ pass.writes[2] = Write("create", "Service")
              /\ NumCreates(pass.writes) = 1
              /\ \A s \in services : s.uid \notin pass.found.Service
              /\ Cardinality(OwnedServices(pass.obj)) = 1

C1_Witness ==
    /\ DataPlanePass
    /\ Cardinality(pass.found.Deployment) > 1
    /\ Cardinality(OwnedDeployments(pass.obj)) = 1

\* The pass got as far as running the validator.
RanValidator(p) ==
    p.outcome \in {"validationFailed", "certificate", "deployment",
                   "waitDeployment", "provisioned"}

ProvisionedConditionIs(dataplane, status, reason, message) ==
    /\ HasCondition(dataplane.conditions, DataPlaneConditionTypeProvisioned)
    /\ \A i \in 1..Len(dataplane.conditions) :
          dataplane.conditions[i].type = DataPlaneConditionTypeProvisioned =>
              /\ dataplane.conditions[i].status = status
              /\ dataplane.conditions[i].reason = reason
              /\ dataplane.conditions[i].message = message

\* C4: a pass that runs the validator on a DataPlane failing validation leaves
\* the Secrets, Deployments and Services as they were, ends with the
\* Provisioned condition False, reason ValidationFailed and the validator's
\* text as message, and asks for no timed requeue.
C4_ValidationFailureStops ==
    [][\A dataplane \in dataplanes :
          (/\ pass'.op = "DataPlane"
           /\ pass'.obj = dataplane.uid
           /\ RanValidator(pass')
           /\ Validate(dataplane) # "")
          => /\ UNCHANGED <<secrets, deployments, services>>
             /\ \A i \in 1..Len(pass'.writes) :
                   pass'.writes[i] = Write("updateStatus", "DataPlane")
             /\ \E after \in dataplanes' :
                   /\ after.uid = dataplane.uid
                   /\ ProvisionedConditionIs(after, ConditionFalse,
                          DataPlaneConditionValidationFailed, Validate(dataplane))
             /\ ~pass'.requeue]_vars

C4_Witness ==
    /\ DataPlanePass
    /\ pass.outcome = "validationFailed"
    /\ pass.writes # <<>>
    /\ OwnedDeployments(pass.obj) # {}
    /\ \E dataplane \in dataplanes :
          /\ dataplane.uid = pass.obj
          /\ ProvisionedConditionIs(dataplane, ConditionFalse,
                 DataPlaneConditionValidationFailed, "bad2 is not supported")

\* The pass over a DataPlane changes nothing in the cluster.
DataPlanePassWritesNothing ==
    /\ pass'.writes = <<>>
    /\ UNCHANGED <<dataplanes, services, secrets, deployments>>

-----------------------------------------------------------------------------
(* Properties of ensureDeploymentForControlPlane *)

ControlPlaneDeploymentPass == pass.op = "ensureDeploymentForControlPlane"

\* C5: after every call of ensureDeploymentForControlPlane for a ControlPlane
\* whose spec.dataPlane is nil or empty, the ControlPlane owns one Deployment
\* and its replicas are 0, whether the call created it, recreated it after
\* deleting duplicates, or found it with replicas unset or non-zero.
C5_DormantWithoutDataPlane ==
    ControlPlaneDeploymentPass =>
        \A controlplane \in controlplanes :
            (controlplane.uid = pass.obj /\ ~dataplaneIsSet(controlplane))
            => /\ Cardinality(OwnedControlPlaneDeployments(controlplane.uid)) = 1
               /\ \A d \in OwnedControlPlaneDeployments(controlplane.uid) :
                     d.replicas = Ptr(0)

C5_Witness ==
    /\ ControlPlaneDeploymentPass
    /\ Cardinality(pass.found.Deployment) = 1
    /\ pass.writes = <<Write("update", "Deployment")>>
    /\ \E controlplane \in controlplanes :
          /\ controlplane.uid = pass.obj
          /\ controlplane.dataplane = Ptr(EmptyString)
          /\ \A d \in OwnedControlPlaneDeployments(controlplane.uid) :
                d.replicas = Ptr(0)

\* C6 as stated: for a ControlPlane with a DataPlane set and a single owned
\* Deployment, a call that finds the replicas at 0 unsets them, sets the
\* container env to the ControlPlane's spec env in the same update and
\* returns changed; a call that finds them otherwise leaves them as they are.
C6_Counterexample ==
    [][\A controlplane \in controlplanes, d \in deployments :
          (/\ pass'.op = "ensureDeploymentForControlPlane"
           /\ pass'.obj = controlplane.uid
           /\ dataplaneIsSet(controlplane)
           /\ OwnedControlPlaneDeployments(controlplane.uid) = {d})
          => IF d.replicas = Ptr(0)
             THEN /\ pass'.changed
                  /\ pass'.writes = <<Write("update", "Deployment")>>
                  /\ \E after \in deployments' :
                        /\ after.uid = d.uid
                        /\ after.replicas = NilPtr
                        /\ after.env = controlplane.env
             ELSE \E after \in deployments' :
                      after.uid = d.uid /\ after.replicas = d.replicas]_vars

-----------------------------------------------------------------------------
(* Properties of the Gateway reconciler *)

GatewayPass == pass.op = "Gateway"

ProvisionedTrue(obj) == HasConditionTrue(obj.conditions, "Provisioned")

C3_Counterexample ==
    [][(/\ pass'.op = "Gateway"
        /\ IsGatewayReady(gateway)
        /\ \/ \E d \in ListDataPlanesForGateway(gateway) : ~ProvisionedTrue(d)
           \/ \E c \in ListControlPlanesForGateway(gateway) : ~ProvisionedTrue(c))
       => ~IsGatewayReady(gateway')]_vars

\* C8 as stated: the pass of the Gateway reconciler that follows, with
\* nothing in between, the pass that set Ready to True issues no write.
C8_Counterexample ==
    [][(/\ GatewayPass
        /\ pass.outcome = "ready"
        /\ pass.writes = <<Write("updateStatus", "Gateway")>>
        /\ pass'.op = "Gateway")
       => pass'.writes = <<>>]_vars

\* C9 as stated: a pass of the Gateway reconciler that lists k > 1 owned
\* ControlPlanes deletes them and creates one, so that the Gateway owns
\* exactly one ControlPlane when the pass returns.
C9_Counterexample ==
    (GatewayPass /\ Cardinality(pass.found.ControlPlane) > 1)
    => /\ \A c \in controlplanes : c.uid \notin pass.found.ControlPlane
       /\ Cardinality(ListControlPlanesForGateway(gateway)) = 1

\* C10: a pass of the Gateway reconciler that lists k > 1 owned DataPlanes
\* deletes all of them and creates exactly one DataPlane, which carries the
\* dataplane options of the GatewayConfiguration and no condition; the pass
\* creates no ControlPlane and does not set Ready.
C10_DuplicateDataPlanesReplaced ==
    (GatewayPass /\ Cardinality(pass.found.DataPlane) > 1)
    => /\ pass.writes = <<Write("deleteAllOf", "DataPlane"),
                          Write("create", "DataPlane")>>
       /\ \A d \in dataplanes : d.uid \notin pass.found.DataPlane
       /\ Cardinality(ListDataPlanesForGateway(gateway)) = 1
       /\ \A d \in ListDataPlanesForGateway(gateway) :
             /\ d.conditions = <<>>
             /\ d.spec = setDataplaneGatewayConfigDefaults(
                             configurationOf(getOrCreateGatewayConfiguration)
                             ).dataplaneOptions[1]
       /\ pass.outcome = "waitDataPlane"
       /\ pass.requeue

C10_Witness ==
    /\ GatewayPass
    /\ Cardinality(pass.found.DataPlane) > 1
    /\ gatewayClass.parametersRef = Ptr(ConfigurationReference)
    /\ \E d \in ListDataPlanesForGateway(gateway) : d.spec = OptCustom
    /\ controlplanes # {}

\* The pass that just ran issued the call.
Issued(p, verb, kind) ==
    \E i \in 1..Len(p.writes) : p.writes[i] = Write(verb, kind)

\* C11: the Gateway reconciler creates a DataPlane only in a pass that read
\* the Gateway with Scheduled True as persisted; it creates a ControlPlane
\* only in a pass that read the single owned DataPlane with Provisioned True
\* and exactly one owned Service; it turns Ready to True only in a pass that
\* read the ControlPlane with Provisioned True.
C11_ConvergenceOrder ==
    [][pass'.op = "Gateway" =>
          /\ Issued(pass', "create", "DataPlane") => IsGatewayScheduled(gateway)
          /\ Issued(pass', "create", "ControlPlane") =>
                /\ IsGatewayScheduled(gateway)
                /\ Cardinality(ListDataPlanesForGateway(gateway)) = 1
                /\ \A d \in ListDataPlanesForGateway(gateway) :
                      /\ ProvisionedTrue(d)
                      /\ Cardinality(OwnedServices(d.uid)) = 1
          /\ (~IsGatewayReady(gateway) /\ IsGatewayReady(gateway')) =>
                /\ \E d \in ListDataPlanesForGateway(gateway) : ProvisionedTrue(d)
                /\ \E c \in controlplanes' :
                      /\ c.uid \in {o.uid : o \in ListControlPlanesForGateway(gateway)}
                      /\ ProvisionedTrue(c)]_vars

C11_Witness ==
    /\ GatewayPass
    /\ Issued(pass, "create", "ControlPlane")
    /\ pass.outcome = "waitControlPlane"
    /\ IsGatewayScheduled(gateway)
    /\ \E d \in ListDataPlanesForGateway(gateway) :
          ProvisionedTrue(d) /\ Cardinality(OwnedServices(d.uid)) = 1

-----------------------------------------------------------------------------
(* Properties of the converging Gateway *)

GatewayConverged ==
    /\ IsGatewayScheduled(gateway)
    /\ IsGatewayReady(gateway)
    /\ gateway.addresses # <<>>
    /\ Cardinality(ListDataPlanesForGateway(gateway)) = 1
    /\ \A d \in ListDataPlanesForGateway(gateway) : ProvisionedTrue(d)
    /\ Cardinality(ListControlPlanesForGateway(gateway)) = 1
    /\ \A c \in ListControlPlanesForGateway(gateway) : ProvisionedTrue(c)

\* C12 as stated: under fair scheduling of the reconcilers and of the
\* cluster, a supported Gateway eventually is Scheduled and Ready, with one
\* owned DataPlane and one owned ControlPlane, both provisioned, and with
\* addresses whose first entry is an IP address.
C12_Counterexample ==
    <>(GatewayConverged /\ gateway.addresses[1] \in IPAddresses)

-----------------------------------------------------------------------------
(* Properties of the deleted Gateway *)

CreatedBy(before, after) == {o \in after : \A b \in before : b.uid # o.uid}

NoChildOfGatewayLeft ==
    /\ \A d \in dataplanes : ~IsOwnedByRefUID(d, gateway.uid)
    /\ \A c \in controlplanes : ~IsOwnedByRefUID(c, gateway.uid)

\* C13: every DataPlane and ControlPlane a pass of the Gateway reconciler
\* creates carries an owner reference to the Gateway; a pass for the deleted
\* Gateway creates and writes nothing; and once the Gateway is deleted, the
\* DataPlanes and ControlPlanes that refer to it as owner are eventually all
\* removed and stay removed.
C13_ChildrenFollowGateway ==
    /\ [][pass'.op = "Gateway" =>
            /\ \A o \in CreatedBy(dataplanes, dataplanes')
                        \cup CreatedBy(controlplanes, controlplanes') :
                  o.ownerReferences = <<gateway.uid>>
            /\ ~gateway.exists =>
                  /\ pass'.writes = <<>>
                  /\ UNCHANGED <<gateway, dataplanes, controlplanes>>]_vars
    /\ (~gateway.exists) ~> [](NoChildOfGatewayLeft)

C13_Witness ==
    /\ ~gateway.exists
    /\ GatewayPass
    /\ pass.outcome = "notFound"
    /\ NoChildOfGatewayLeft
    /\ nextName = 3

-----------------------------------------------------------------------------
(* Properties of all reconcilers *)

ReconcilePass ==
    pass.op \in {"Gateway", "DataPlane", "ensureDeploymentForControlPlane"}

\* C14 as stated: every pass of a reconciler issues at most one mutating
\* cluster call (create, update, status update or delete).
C14_Counterexample ==
    ReconcilePass => Len(pass.writes) <= 1

GatewayClassIsAbsent ==
    gateway.gatewayClassName # "" /\ gatewayClass.name # gateway.gatewayClassName

GatewayClassOfOtherController ==
    /\ gatewayClass.name = gateway.gatewayClassName
    /\ gatewayClass.controllerName # ControllerName

\* C15 as stated: a pass for a Gateway whose GatewayClass does not exist, or
\* names another controller, returns no error, asks for no requeue and
\* writes nothing.
C15_Counterexample ==
    (GatewayPass /\ (GatewayClassIsAbsent \/ GatewayClassOfOtherController))
    => /\ ~pass.err
       /\ ~pass.requeue
       /\ pass.writes = <<>>

\* C16: a pass for a request whose DataPlane, or Gateway, no longer exists
\* returns no error, asks for no requeue, issues no write and leaves the
\* cluster as it is.
C16_NotFoundIsSuccess ==
    [][(\/ pass'.op = "Gateway" /\ ~gateway.exists
        \/ /\ pass'.op = "DataPlane"
           /\ \A d \in dataplanes : d.uid # pass'.obj)
       => /\ ~pass'.err
          /\ ~pass'.requeue
          /\ pass'.writes = <<>>
          /\ UNCHANGED <<gateway, dataplanes, controlplanes, services,
                         secrets, deployments>>]_vars

C16_Witness ==
    /\ DataPlanePass
    /\ pass.outcome = "notFound"
    /\ ~gateway.exists
    /\ \A d \in dataplanes : d.uid # pass.obj
    /\ \E s \in services : IsOwnedByRefUID(s, pass.obj)

\* C17 as stated: a pass of the DataPlane reconciler whose update or status
\* update of the DataPlane fails with a conflict returns no error and asks
\* for a requeue, at every update site of the pass.
C17_Counterexample ==
    (DataPlanePass /\ pass.conflict) => (~pass.err /\ pass.requeue)

-----------------------------------------------------------------------------
(* Properties of the status conditions *)

OneConditionPerType(conditions) ==
    \A i, j \in 1..Len(conditions) :
        conditions[i].type = conditions[j].type => i = j

C19_Counterexample ==
    (DataPlanePass /\ pass.outcome = "validationFailed") =>
        \A dataplane \in dataplanes :
            dataplane.uid = pass.obj =>
                \A i \in 1..Len(dataplane.conditions) :
                    dataplane.conditions[i].type = DataPlaneConditionTypeProvisioned
                        => dataplane.conditions[i].observedGeneration
                              = dataplane.generation

\* C20: a pass of the DataPlane reconciler issues a create of a Deployment
\* only when it started with exactly one owned Service, which has a ClusterIP
\* and which the pass leaves as it is, with a spec that has env set and passes
\* validation, and with an owned certificate Secret that exists and that the
\* pass leaves as it is.
C20_DeploymentCreatedLast ==
    [][(pass'.op = "DataPlane" /\ Issued(pass', "create", "Deployment")) =>
          \E dataplane \in dataplanes :
              /\ dataplane.uid = pass'.obj
              /\ Cardinality(OwnedServices(dataplane.uid)) = 1
              /\ \A service \in OwnedServices(dataplane.uid) :
                    service.clusterIP # ""
              /\ services' = services
              /\ ~Issued(pass', "create", "Service")
              /\ ~Issued(pass', "update", "Service")
              /\ dataplane.spec # OptEmpty
              /\ Validate(dataplane) = ""
              /\ Cardinality(OwnedSecrets(dataplane.uid)) = 1
              /\ secrets' = secrets
              /\ ~Issued(pass', "create", "Secret")
              /\ ~Issued(pass', "update", "Secret")]_vars

\* A pass created the Deployment of a DataPlane that has its Service with a
\* ClusterIP and its certificate Secret.
C20_Witness ==
    /\ DataPlanePass
    /\ pass.outcome = "deployment"
    /\ Issued(pass, "create", "Deployment")
    /\ Cardinality(OwnedDeployments(pass.obj)) = 1
    /\ \E service \in OwnedServices(pass.obj) : service.clusterIP # ""
    /\ Cardinality(OwnedSecrets(pass.obj)) = 1

-----------------------------------------------------------------------------
(* Properties of the owned children *)

\* The object carries the one owner reference and the label its parent's
\* ensure step generates.
CarriesParentMeta(obj, parent, value) ==
    /\ obj.ownerReferences = <<parent>>
    /\ MatchingLabels(obj, GatewayOperatorControlledLabel, value)

\* The objects of after that the step created or, having issued an update of
\* the kind, updated: the owned children it had found.
WrittenBy(before, after, updated, found) ==
    CreatedBy(before, after)
        \cup (IF updated THEN {o \in after : o.uid \in found} ELSE {})

\* C21: every child a reconcile pass creates carries exactly one
\* ownerReference, the UID of its parent, and the provenance label of the
\* parent's kind; and a single existing child that an ensure step updates
\* carries that ownerReference alone and the label afterwards.
C21_ChildrenCarryOwnerAndLabel ==
    [][ /\ pass'.op = "DataPlane" =>
            /\ \A o \in WrittenBy(deployments, deployments',
                                  Issued(pass', "update", "Deployment"),
                                  pass'.found.Deployment) :
                  CarriesParentMeta(o, pass'.obj, DataPlaneManagedLabelValue)
            /\ \A o \in WrittenBy(services, services',
                                  Issued(pass', "update", "Service"),
                                  pass'.found.Service) :
                  CarriesParentMeta(o, pass'.obj, DataPlaneManagedLabelValue)
            /\ \A o \in WrittenBy(secrets, secrets',
                                  Issued(pass', "update", "Secret"),
                                  pass'.found.Secret) :
                  CarriesParentMeta(o, pass'.obj, DataPlaneManagedLabelValue)
        /\ pass'.op = "ensureDeploymentForControlPlane" =>
            \A o \in WrittenBy(deployments, deployments',
                               Issued(pass', "update", "Deployment"),
                                  pass'.found.Deployment) :
                CarriesParentMeta(o, pass'.obj, ControlPlaneManagedLabelValue)
        /\ pass'.op = "Gateway" =>
            /\ \A o \in WrittenBy(dataplanes, dataplanes',
                                  Issued(pass', "update", "DataPlane"),
                                  pass'.found.DataPlane) :
                  CarriesParentMeta(o, pass'.obj, GatewayManagedLabelValue)
            /\ \A o \in WrittenBy(controlplanes, controlplanes',
                                  Issued(pass', "update", "ControlPlane"),
                                  pass'.found.ControlPlane) :
                  CarriesParentMeta(o, pass'.obj, GatewayManagedLabelValue)
      ]_vars

\* The DataPlane reconciler updated the single Deployment of a DataPlane that
\* the Gateway reconciler created, after another writer had added an owner
\* reference to the Deployment.
C21_Witness ==
    /\ DataPlanePass
    /\ Issued(pass, "update", "Deployment")
    /\ \E deployment \in deployments :
          CarriesParentMeta(deployment, pass.obj, DataPlaneManagedLabelValue)
    /\ \E dataplane \in dataplanes :
          /\ dataplane.uid = pass.obj
          /\ CarriesParentMeta(dataplane, gateway.uid, GatewayManagedLabelValue)

-----------------------------------------------------------------------------
(* Properties of the Reconcile of controllers/gateway_controller.go *)

\* C22 as stated: the DataPlane and the ControlPlane that a pass of the
\* Gateway reconciler updates or reads for readiness carry the
\* gateway-managed label and an owner reference with the UID of the Gateway.
C22_Counterexample ==
    pass.op = "GatewayByName" =>
        /\ \A d \in dataplanes :
              d.uid \in pass.found.DataPlane =>
                  /\ MatchingLabels(d, GatewayOperatorControlledLabel,
                                    GatewayManagedLabelValue)
                  /\ IsOwnedByRefUID(d, gateway.uid)
        /\ \A c \in controlplanes :
              c.uid \in pass.found.ControlPlane =>
                  /\ MatchingLabels(c, GatewayOperatorControlledLabel,
                                    GatewayManagedLabelValue)
                  /\ IsOwnedByRefUID(c, gateway.uid)

-----------------------------------------------------------------------------
(* Properties of the Scheduled condition of the Gateway *)

\* C23 as stated: once the status of the Gateway holds Scheduled with status
\* True, every later state holds it as well, the states after the pass that
\* sets Ready included.
C23_Counterexample ==
    [][IsGatewayScheduled(gateway) => IsGatewayScheduled(gateway')]_vars

-----------------------------------------------------------------------------
(* Properties of the Gateway reconciler next to the DataPlane reconciler *)

\* C24: a pass of the Gateway reconciler that reads its DataPlane with
\* Provisioned True and lists no or more than one Service owned by that
\* DataPlane returns an error; it creates, updates and deletes no
\* ControlPlane, deletes no Service and leaves the conditions and the
\* addresses of the Gateway as they are.
C24_ServiceCountError ==
    [][(/\ pass'.op = "Gateway"
        /\ gateway.exists
        /\ IsGatewayScheduled(gateway)
        /\ Cardinality(ListDataPlanesForGateway(gateway)) = 1
        /\ \A dataplane \in ListDataPlanesForGateway(gateway) :
              /\ ProvisionedTrue(dataplane)
              /\ Cardinality(OwnedServices(dataplane.uid)) # 1)
       => /\ pass'.err
          /\ controlplanes' = controlplanes
          /\ services' = services
          /\ gateway' = gateway
          /\ \A i \in 1..Len(pass'.writes) :
                pass'.writes[i].kind \notin {"ControlPlane", "Service", "Gateway"}
      ]_vars

\* A pass read the provisioned DataPlane of the Gateway, listed two Services
\* that it owns and returned an error.
C24_Witness ==
    /\ GatewayPass
    /\ pass.err
    /\ \E dataplane \in ListDataPlanesForGateway(gateway) :
          /\ dataplane.uid \in pass.found.DataPlane
          /\ ProvisionedTrue(dataplane)
          /\ Cardinality(OwnedServices(dataplane.uid)) = 2

\* C25 as stated: the pass that marks the Gateway Ready stores addresses whose
\* first entry is the first load balancer ingress IP of the DataPlane's single
\* Service when the Service has one and its ClusterIP otherwise, and which
\* hold the ClusterIP.
C25_Counterexample ==
    (GatewayPass /\ pass.outcome = "ready") =>
        \A dataplane \in ListDataPlanesForGateway(gateway) :
            \A svc \in OwnedServices(dataplane.uid) :
                /\ gateway.addresses # <<>>
                /\ gateway.addresses[1] =
                      IF Len(svc.ingress) > 0 /\ svc.ingress[1].ip # ""
                      THEN svc.ingress[1].ip
                      ELSE svc.clusterIP
                /\ \E i \in 1..Len(gateway.addresses) :
                      gateway.addresses[i] = svc.clusterIP

\* C26: a pass of the Gateway reconciler over a scheduled Gateway of a
\* supported GatewayClass: without parametersRef it does not return the
\* error of the configuration step, and a DataPlane it creates has the
\* options of an empty GatewayConfiguration with the defaults; with a
\* parametersRef of another group or kind, without namespace or name, or
\* naming a GatewayConfiguration that cannot be read, it returns an error,
\* issues no write and leaves every DataPlane and ControlPlane as it was.
C26_ParametersRef ==
    [][(/\ pass'.op = "Gateway"
        /\ ~gatewayIsNotFound(gateway)
        /\ ~verifyGatewayClassSupport(gateway).unsupported
        /\ ~verifyGatewayClassSupport(gateway).err
        /\ IsGatewayScheduled(gateway))
       => IF gatewayClass.parametersRef = NilPtr
          THEN /\ pass'.outcome # "configurationError"
               /\ \A d \in CreatedBy(dataplanes, dataplanes') :
                      d.spec = setDataplaneGatewayConfigDefaults(
                          NewGatewayConfiguration(NilPtr, NilPtr)
                          ).dataplaneOptions[1]
          ELSE LET ref == gatewayClass.parametersRef[1]
               IN  (\/ ref.group # "gateway-operator.konghq.com"
                    \/ ref.kind # "GatewayConfiguration"
                    \/ ref.namespace \in {NilPtr, Ptr("")}
                    \/ ref.name = ""
                    \/ ref.name # gatewayConfig.name)
                   => /\ pass'.err
                      /\ pass'.writes = <<>>
                      /\ dataplanes' = dataplanes
                      /\ controlplanes' = controlplanes
      ]_vars

\* A pass found a DataPlane of the Gateway in the cluster and a parametersRef
\* of another kind in the GatewayClass, and returned the error.
C26_Witness ==
    /\ GatewayPass
    /\ pass.outcome = "configurationError"
    /\ gatewayClass.parametersRef # NilPtr
    /\ gatewayClass.parametersRef[1].kind = "ConfigMap"
    /\ ListDataPlanesForGateway(gateway) # {}

\* C27: for every ControlPlane with a Provisioned condition,
\* ensureDataPlaneStatus turns the condition to False with reason NoDataplane
\* when spec.dataPlane is nil or empty and the reason is another one, and to
\* False with reason PodsNotReady when spec.dataPlane is set and the reason
\* is NoDataplane, reports the change and the step persists that status; in
\* every other case it reports no change, returns the ControlPlane as it was
\* and the step writes no status.
C27_DataPlaneStatus ==
    [][\A controlplane \in controlplanes :
          LET conds == controlplane.conditions
              isSet == /\ controlplane.dataplane # NilPtr
                       /\ controlplane.dataplane[1] # EmptyString
              r == ensureDataPlaneStatus(controlplane)
              persisted == /\ pass'.op = "ControlPlaneStatus"
                           /\ pass'.outcome = "ensureDataPlaneStatus"
                           /\ pass'.obj = controlplane.uid
              becomes(reason) ==
                  /\ r.changed
                  /\ Len(r.obj.conditions) = 1
                  /\ r.obj.conditions[1].type = "Provisioned"
                  /\ r.obj.conditions[1].status = ConditionFalse
                  /\ r.obj.conditions[1].reason = reason
                  /\ persisted =>
                        /\ r.obj \in controlplanes'
                        /\ pass'.writes = <<Write("updateStatus", "ControlPlane")>>
          IN  \A i \in 1..Len(conds) :
                 conds[i].type = "Provisioned" =>
                    IF ~isSet /\ conds[i].reason # "NoDataplane"
                    THEN becomes("NoDataplane")
                    ELSE IF isSet /\ conds[i].reason = "NoDataplane"
                    THEN becomes("PodsNotReady")
                    ELSE /\ ~r.changed
                         /\ r.obj = controlplane
                         /\ ~persisted
      ]_vars

\* The step persisted NoDataplane on a ControlPlane whose DataPlane reference
\* is not set.
C27_Witness ==
    /\ pass.op = "ControlPlaneStatus"
    /\ pass.outcome = "ensureDataPlaneStatus"
    /\ \E controlplane \in controlplanes :
          /\ controlplane.uid = pass.obj
          /\ ~dataplaneIsSet(controlplane)
          /\ Len(controlplane.conditions) = 1
          /\ controlplane.conditions[1].reason = ControlPlaneConditionReasonNoDataplane
          /\ controlplane.conditions[1].status = ConditionFalse

ChangedAsWritten(r, objs, owned, settled) ==
    /\ r.changed <=> \E i \in 1..Len(r.writes) :
                        r.writes[i].verb \in {"create", "update"}
    /\ ~r.changed => r.objs = objs
    /\ (Cardinality(owned) = 1 /\ settled) =>
          /\ ~r.changed
          /\ r.writes = <<>>
          /\ r.obj \in owned
          /\ r.objs = objs

\* C29: in every state, each ensure step that reports a changed flag (the
\* Service, the certificate Secret and the Deployment of every DataPlane, the
\* Deployment of every ControlPlane) reports changed exactly when it issues a
\* create or an update; and when there is exactly one owned child that
\* carries the generated owner reference and label (and, for the Deployment
\* of a ControlPlane, replicas that agree with the DataPlane reference being
\* set or not) it issues no write and returns changed = FALSE with that child.
C29_ChangedIffWritten ==
    /\ \A dataplane \in dataplanes :
          LET settled(owned) ==
                  \A o \in owned : CarriesParentMeta(o, dataplane.uid,
                                                      DataPlaneManagedLabelValue)
          IN  /\ ChangedAsWritten(ensureServiceForDataPlane(dataplane), services,
                     OwnedServices(dataplane.uid),
                     settled(OwnedServices(dataplane.uid)))
              /\ ChangedAsWritten(ensureCertificate(dataplane), secrets,
                     OwnedSecrets(dataplane.uid),
                     settled(OwnedSecrets(dataplane.uid)))
              /\ ChangedAsWritten(ensureDeploymentForDataPlane(dataplane),
                     deployments, OwnedDeployments(dataplane.uid),
                     settled(OwnedDeployments(dataplane.uid)))
    /\ \A controlplane \in controlplanes :
          LET owned == OwnedControlPlaneDeployments(controlplane.uid)
              isSet == /\ controlplane.dataplane # NilPtr
                       /\ controlplane.dataplane[1] # EmptyString
          IN  ChangedAsWritten(ensureDeploymentForControlPlane(controlplane),
                 deployments, owned,
                 \A o \in owned :
                    /\ CarriesParentMeta(o, controlplane.uid,
                                         ControlPlaneManagedLabelValue)
                    /\ IF isSet THEN o.replicas # Ptr(0)
                                ELSE o.replicas = Ptr(0))
    /\ pass.op = "ensureDeploymentForControlPlane" =>
          (pass.changed <=> \E i \in 1..Len(pass.writes) :
                               pass.writes[i].verb \in {"create", "update"})

\* A call of ensureDeploymentForControlPlane found the single Deployment of
\* the ControlPlane with the generated metadata and no replicas while the
\* DataPlane reference is not set, and reported no change.
C29_Witness ==
    /\ pass.op = "ensureDeploymentForControlPlane"
    /\ ~pass.changed
    /\ pass.writes = <<>>
    /\ \E controlplane \in controlplanes :
          /\ controlplane.uid = pass.obj
          /\ ~dataplaneIsSet(controlplane)
          /\ Cardinality(OwnedControlPlaneDeployments(controlplane.uid)) = 1
          /\ \A o \in OwnedControlPlaneDeployments(controlplane.uid) :
                /\ o.uid \in pass.found.Deployment
                /\ o.replicas = Ptr(0)
                /\ CarriesParentMeta(o, controlplane.uid,
                                     ControlPlaneManagedLabelValue)

\* C30 as stated: after a pass of the DataPlane reconciler whose
\* ensure-Deployment step found exactly one owned Deployment, that Deployment
\* has the spec generated from the DataPlane: the step updated it if it
\* differed.
C30_Counterexample ==
    (DataPlanePass /\ Cardinality(pass.found.Deployment) = 1) =>
        \A dataplane \in dataplanes :
            dataplane.uid = pass.obj =>
                \A deployment \in deployments :
                    deployment.uid \in pass.found.Deployment =>
                        deployment.env =
                            generateNewDeploymentForDataPlane(
                                dataplane, deployment.name).env

-----------------------------------------------------------------------------
(* Properties of internal/utils/kubernetes *)

\* The objects of objs that carry the label with the value and have an owner
\* reference with the UID.
LabelledAndOwned(objs, key, value, uid) ==
    {o \in objs :
        /\ key \in DOMAIN o.labels
        /\ o.labels[key] = value
        /\ uid \in {o.ownerReferences[i] : i \in 1..Len(o.ownerReferences)}}

C33_AtMostOneDeployment ==
    /\ \A dataplane \in dataplanes :
          Cardinality(LabelledAndOwned(deployments,
              GatewayOperatorControlledLabel, DataPlaneManagedLabelValue,
              dataplane.uid)) <= 1
    /\ \A controlplane \in controlplanes :
          Cardinality(LabelledAndOwned(deployments,
              GatewayOperatorControlledLabel, ControlPlaneManagedLabelValue,
              controlplane.uid)) <= 1

\* A call of ensureDeploymentForControlPlane found the Deployment that an
\* earlier call created, before any replica of it was reported, and issued
\* no write; the DataPlane has its one Deployment too.
C33_Witness ==
    /\ pass.op = "ensureDeploymentForControlPlane"
    /\ ~pass.changed
    /\ pass.writes = <<>>
    /\ \E deployment \in deployments :
          /\ pass.found.Deployment = {deployment.uid}
          /\ deployment.statusReplicas = 0
    /\ \E dataplane \in dataplanes :
          Cardinality(OwnedDeployments(dataplane.uid)) = 1

\* C34 as stated: when the watch predicate cannot list the ControlPlanes, the
\* event of the ClusterRole or ClusterRoleBinding is let through.
C34_Counterexample ==
    (pass.op = "objHasControlplaneOwner" /\ pass.err) => pass.changed


\* C35: once a DataPlane has a Provisioned condition of True, a pass whose
\* ensure steps change nothing and that finds the owned Deployment with zero
\* replicas, or with fewer available replicas than replicas, issues no write
\* and leaves the DataPlane as it is, Provisioned True included; and a pass of
\* the reconciler after which the DataPlane no longer has a Provisioned
\* condition of True is one that stopped at a validation failure.
C35_NotReadyKeepsProvisioned ==
    [][\A dataplane \in dataplanes :
          (/\ ProvisionedTrue(dataplane)
           /\ pass'.op = "DataPlane"
           /\ pass'.obj = dataplane.uid)
          => /\ (/\ pass'.outcome # "deployment"
                 /\ \E deployment \in deployments :
                       /\ pass'.found.Deployment = {deployment.uid}
                       /\ \/ deployment.statusReplicas = 0
                          \/ deployment.availableReplicas
                                 < deployment.statusReplicas)
                => /\ pass'.outcome = "waitDeployment"
                   /\ pass'.writes = <<>>
                   /\ UNCHANGED <<dataplanes, services, secrets, deployments>>
             /\ (\A after \in dataplanes' :
                    after.uid = dataplane.uid => ~ProvisionedTrue(after))
                => pass'.outcome = "validationFailed"]_vars

C35_Witness ==
    /\ DataPlanePass
    /\ pass.outcome = "waitDeployment"
    /\ pass.writes = <<>>
    /\ \E dataplane \in dataplanes :
          /\ dataplane.uid = pass.obj
          /\ ProvisionedTrue(dataplane)
          /\ \E deployment \in OwnedDeployments(dataplane.uid) :
                /\ pass.found.Deployment = {deployment.uid}
                /\ deployment.statusReplicas = 1
                /\ deployment.availableReplicas = 0

\* C36 as stated: after every pass of the Gateway reconciler that reaches the
\* mark-ready step without error, the addresses in the status of the Gateway
\* are the ones derived from the Service of its DataPlane as the Service is at
\* that pass, also when the Service gained a load balancer IP after the
\* Gateway was first marked Ready.
C36_Counterexample ==
    (GatewayPass /\ pass.outcome = "ready" /\ ~pass.err) =>
        \A dataplane \in ListDataPlanesForGateway(gateway) :
            \A svc \in OwnedServices(dataplane.uid) :
                gateway.addresses = gatewayAddresses(svc)

\* C37 as stated: a pass of the DataPlane reconciler for DataPlane A deletes no
\* Deployment and no Service that is owned by another DataPlane B and not by
\* A, although the children of B carry the same label.
C37_Counterexample ==
    [][pass'.op = "DataPlane" =>
          /\ \A deployment \in deployments :
                (\A i \in 1..Len(deployment.ownerReferences) :
                    deployment.ownerReferences[i] # pass'.obj)
                => \E kept \in deployments' : kept.uid = deployment.uid
          /\ \A service \in services :
                (\A i \in 1..Len(service.ownerReferences) :
                    service.ownerReferences[i] # pass'.obj)
                => \E kept \in services' : kept.uid = service.uid]_vars

\* C38 as stated: ensureControlPlaneForGateway creates, updates or deletes
\* ControlPlanes only: a pass of the Gateway reconciler that reaches it,
\* whatever the number of ControlPlanes the Gateway owns, issues no deletion
\* of DataPlanes, and every DataPlane of before the pass still exists.
C38_Counterexample ==
    [][(/\ pass'.op = "Gateway"
        /\ pass'.outcome \in {"waitControlPlane", "readyError", "ready"})
       => /\ \A i \in 1..Len(pass'.writes) :
                pass'.writes[i] # Write("deleteAllOf", "DataPlane")
          /\ \A dataplane \in dataplanes :
                \E kept \in dataplanes' : kept.uid = dataplane.uid]_vars

\* C39 as stated: the status that ensureDataPlaneStatus persists holds, as
\* they were, all the conditions of a type other than Provisioned that the
\* ControlPlane had before the call.
C39_Counterexample ==
    [][\A controlplane \in controlplanes :
          (/\ pass'.op = "ControlPlaneStatus"
           /\ pass'.outcome = "ensureDataPlaneStatus"
           /\ pass'.obj = controlplane.uid)
          => \A after \in controlplanes' :
                after.uid = controlplane.uid =>
                    \A i \in 1..Len(controlplane.conditions) :
                        controlplane.conditions[i].type # "Provisioned" =>
                            \E j \in 1..Len(after.conditions) :
                                after.conditions[j] = controlplane.conditions[i]
      ]_vars

\* A pass of the Gateway or of the DataPlane reconciler changed the spec of a
\* DataPlane.
DataPlaneSpecWritten ==
    /\ pass'.op \in {"Gateway", "DataPlane"}
    /\ \E before \in dataplanes, after \in dataplanes' :
          after.uid = before.uid /\ after.spec # before.spec

=========================================================================
